---- MODULE Spec2Model ----
(***************************************************************************)
(* The streaming commands of src-tauri/src/commands/claude.rs, the key     *)
(* commands of src-tauri/src/commands/keychain.rs, the session commands of *)
(* src-tauri/src/commands/auth.rs and the document commands of             *)
(* src-tauri/src/commands/file.rs.                                         *)
(*                                                                         *)
(* A String is a sequence of characters and a character is a one-character *)
(* TLA+ string ("d", "\n"); the two characters outside ASCII that the      *)
(* model uses are written "U+00E9" and "U+FFFD".  A byte of the transport  *)
(* is the same one-character string when it is ASCII, and "xC3", "xA9"     *)
(* when it is a byte of a multi-byte UTF-8 sequence.  An Option<T> is a    *)
(* sequence of length 0 (None) or 1 (Some).                                *)
(***************************************************************************)
EXTENDS Naturals, Sequences, FiniteSets, TLC

(***************************************************************************)
(* String literals of the source.                                          *)
(***************************************************************************)
DATA_PREFIX == <<"d", "a", "t", "a", ":", " ">>
DONE_MARKER == <<"[", "D", "O", "N", "E", "]">>
K_type == <<"t", "y", "p", "e">>
K_index == <<"i", "n", "d", "e", "x">>
K_content_block == <<"c", "o", "n", "t", "e", "n", "t", "_", "b", "l", "o", "c", "k">>
K_delta == <<"d", "e", "l", "t", "a">>
K_message == <<"m", "e", "s", "s", "a", "g", "e">>
K_error == <<"e", "r", "r", "o", "r">>
K_id == <<"i", "d">>
K_name == <<"n", "a", "m", "e">>
K_text == <<"t", "e", "x", "t">>
K_partial_json == <<"p", "a", "r", "t", "i", "a", "l", "_", "j", "s", "o", "n">>
K_stop_reason == <<"s", "t", "o", "p", "_", "r", "e", "a", "s", "o", "n">>
T_content_block_start == <<"c", "o", "n", "t", "e", "n", "t", "_", "b", "l", "o", "c", "k", "_", "s", "t", "a", "r", "t">>
T_content_block_delta == <<"c", "o", "n", "t", "e", "n", "t", "_", "b", "l", "o", "c", "k", "_", "d", "e", "l", "t", "a">>
T_content_block_stop == <<"c", "o", "n", "t", "e", "n", "t", "_", "b", "l", "o", "c", "k", "_", "s", "t", "o", "p">>
T_message_delta == <<"m", "e", "s", "s", "a", "g", "e", "_", "d", "e", "l", "t", "a">>
T_message_stop == <<"m", "e", "s", "s", "a", "g", "e", "_", "s", "t", "o", "p">>
T_error == <<"e", "r", "r", "o", "r">>
T_tool_use == <<"t", "o", "o", "l", "_", "u", "s", "e">>
T_text_delta == <<"t", "e", "x", "t", "_", "d", "e", "l", "t", "a">>
T_input_json_delta == <<"i", "n", "p", "u", "t", "_", "j", "s", "o", "n", "_", "d", "e", "l", "t", "a">>
END_TURN == <<"e", "n", "d", "_", "t", "u", "r", "n">>
COLON_SPACE == <<":", " ">>

(***************************************************************************)
(* String::from_utf8_lossy over the bytes of the model: an ASCII byte is   *)
(* its character, the lead byte xC3 followed by the continuation byte xA9  *)
(* is U+00E9, and every byte that is not part of a complete sequence (a    *)
(* lead byte at the end of the input or before a byte that is no           *)
(* continuation, a continuation byte without its lead) is U+FFFD.          *)
(***************************************************************************)
LeadBytes == {"xC3"}
ContinuationBytes == {"xA9"}
REPLACEMENT_CHARACTER == "U+FFFD"

\* what the byte at position i contributes: a character, or nothing ("") when it
\* is the continuation byte that completes the sequence of the lead byte before it
DecodedAt(bytes, i) ==
    IF bytes[i] \in LeadBytes
    THEN IF i < Len(bytes) /\ bytes[i + 1] \in ContinuationBytes
         THEN "U+00E9" ELSE REPLACEMENT_CHARACTER
    ELSE IF bytes[i] \in ContinuationBytes
         THEN IF i > 1 /\ bytes[i - 1] \in LeadBytes THEN "" ELSE REPLACEMENT_CHARACTER
         ELSE bytes[i]

from_utf8_lossy(bytes) ==
    SelectSeq([i \in 1..Len(bytes) |-> DecodedAt(bytes, i)], LAMBDA c : c # "")

(***************************************************************************)
(* str::find, str::trim, str::starts_with.                                 *)
(***************************************************************************)
WhiteSpace == {" ", "\t", "\n", "\r"}

\* buffer.find('\n'): the index of the first c in s, 0 for None
find(s, c) ==
    IF \E i \in 1..Len(s) : s[i] = c
    THEN CHOOSE i \in 1..Len(s) : s[i] = c /\ \A j \in 1..(i - 1) : s[j] # c
    ELSE 0

trim(s) ==
    IF \A i \in 1..Len(s) : s[i] \in WhiteSpace THEN <<>>
    ELSE LET lo == CHOOSE i \in 1..Len(s) :
                      s[i] \notin WhiteSpace /\ \A j \in 1..(i - 1) : s[j] \in WhiteSpace
             hi == CHOOSE i \in 1..Len(s) :
                      s[i] \notin WhiteSpace /\ \A j \in (i + 1)..Len(s) : s[j] \in WhiteSpace
         IN  SubSeq(s, lo, hi)

starts_with(s, p) == Len(s) >= Len(p) /\ SubSeq(s, 1, Len(p)) = p

(***************************************************************************)
(* serde_json::Value and serde_json::from_str, for the JSON texts made of  *)
(* objects, strings (with the escapes \" \\ \/ \n \r \t), unsigned         *)
(* integers and null, with white space between the tokens.  A Value is a   *)
(* record: t its type, s the characters of a string or number, m the       *)
(* members of an object.  The parser gives the members in the order of the *)
(* text, a key as often as the text has it: the derived Deserialize of a   *)
(* struct reads them so (a field given twice is an error).  A              *)
(* serde_json::Value holds a Map, where a key given again replaces the     *)
(* value it had: ValueOf makes the Value of what the parser gives.         *)
(***************************************************************************)
JNull == [t |-> "null", s |-> <<>>, m |-> <<>>]
JString(s) == [t |-> "string", s |-> s, m |-> <<>>]
JNumber(s) == [t |-> "number", s |-> s, m |-> <<>>]
JObject(m) == [t |-> "object", s |-> <<>>, m |-> m]

Digits == {"0", "1", "2", "3", "4", "5", "6", "7", "8", "9"}
ControlCharacters == {"\n", "\r", "\t"}
NULL_LITERAL == <<"n", "u", "l", "l">>

ParseFail == [ok |-> FALSE, v |-> JNull, i |-> 0]
ParseOk(v, i) == [ok |-> TRUE, v |-> v, i |-> i]

\* the first position from i on that holds no white space
SkipWhiteSpace(s, i) ==
    IF \E j \in i..Len(s) : s[j] \notin WhiteSpace
    THEN CHOOSE j \in i..Len(s) :
            s[j] \notin WhiteSpace /\ \A k \in i..(j - 1) : s[k] \in WhiteSpace
    ELSE Len(s) + 1

Unescape(c) ==
    CASE c = "n" -> "\n"
      [] c = "r" -> "\r"
      [] c = "t" -> "\t"
      [] OTHER -> c

\* the backslash at position j of a string that starts at i introduces an escape:
\* an even number of backslashes stands between the start and it
Introduces(s, i, j) ==
    /\ j >= i /\ j <= Len(s) /\ s[j] = "\\"
    /\ \E n \in 0..(j - i) :
          /\ \A m \in 1..n : s[j - m] = "\\"
          /\ (n = j - i \/ s[j - n - 1] # "\\")
          /\ n % 2 = 0

\* the characters of a string whose opening quote is before position i
ParseStringBody(s, i) ==
    LET Closes(j) == s[j] = "\"" /\ ~Introduces(s, i, j - 1)
    IN  IF ~\E j \in i..Len(s) : Closes(j) THEN ParseFail
        ELSE LET close == CHOOSE j \in i..Len(s) :
                              Closes(j) /\ \A k \in i..(j - 1) : ~Closes(k)
                 body == [p \in 1..(close - i) |->
                            LET j == i + p - 1
                            IN  IF Introduces(s, i, j) THEN ""
                                ELSE IF Introduces(s, i, j - 1) THEN Unescape(s[j])
                                ELSE s[j]]
             IN  IF \E j \in i..(close - 1) :
                       \/ s[j] \in ControlCharacters
                       \/ /\ Introduces(s, i, j)
                          /\ s[j + 1] \notin {"\"", "\\", "/", "n", "r", "t"}
                 THEN ParseFail
                 ELSE ParseOk(JString(SelectSeq(body, LAMBDA c : c # "")), close + 1)

\* the digits from position i on: no leading zero before another digit
ParseDigits(s, i) ==
    LET end == IF \E j \in i..Len(s) : s[j] \notin Digits
               THEN CHOOSE j \in i..Len(s) :
                       s[j] \notin Digits /\ \A k \in i..(j - 1) : s[k] \in Digits
               ELSE Len(s) + 1
    IN  IF end - i > 1 /\ s[i] = "0" THEN ParseFail
        ELSE ParseOk(JNumber(SubSeq(s, i, end - 1)), end)

RECURSIVE ParseValue(_, _)
RECURSIVE ParseMembers(_, _, _)

\* after a member: e is at "}" (the object ends) or at "," (the next key follows)
AfterMember(s, acc, e) ==
    IF e > Len(s) THEN ParseFail
    ELSE IF s[e] = "}" THEN ParseOk(JObject(acc), e + 1)
    ELSE IF s[e] = "," THEN ParseMembers(s, SkipWhiteSpace(s, e + 1), acc)
    ELSE ParseFail

\* after the value val of the member of key k
AfterMemberValue(s, acc, k, val) ==
    IF ~val.ok THEN ParseFail
    ELSE AfterMember(s, Append(acc, [k |-> k, v |-> val.v]), SkipWhiteSpace(s, val.i))

\* after the key k: c is at the ":" before the value
AfterKey(s, acc, k, c) ==
    IF c > Len(s) \/ s[c] # ":" THEN ParseFail
    ELSE AfterMemberValue(s, acc, k, ParseValue(s, c + 1))

\* after the string key that is the key of a member
AfterKeyString(s, acc, key) ==
    IF ~key.ok THEN ParseFail
    ELSE AfterKey(s, acc, key.v.s, SkipWhiteSpace(s, key.i))

\* the members of an object, i at the opening quote of the next key
ParseMembers(s, i, acc) ==
    IF i > Len(s) \/ s[i] # "\"" THEN ParseFail
    ELSE AfterKeyString(s, acc, ParseStringBody(s, i + 1))

\* after "{": j is at "}" (the empty object) or at the first key
ParseObject(s, j) ==
    IF j <= Len(s) /\ s[j] = "}" THEN ParseOk(JObject(<<>>), j + 1)
    ELSE ParseMembers(s, j, <<>>)

\* the value whose first character is at i
ParseValueAt(s, i) ==
    IF i > Len(s) THEN ParseFail
    ELSE IF s[i] = "{" THEN ParseObject(s, SkipWhiteSpace(s, i + 1))
    ELSE IF s[i] = "\"" THEN ParseStringBody(s, i + 1)
    ELSE IF s[i] \in Digits THEN ParseDigits(s, i)
    ELSE IF i + 3 <= Len(s) /\ SubSeq(s, i, i + 3) = NULL_LITERAL
         THEN ParseOk(JNull, i + 4)
    ELSE ParseFail

ParseValue(s, i) == ParseValueAt(s, SkipWhiteSpace(s, i))

\* the end of the text: only white space may follow the value
ParseEnd(s, r) == IF r.ok /\ SkipWhiteSpace(s, r.i) > Len(s) THEN r ELSE ParseFail

\* the JSON text s as the parser reads it
ParseText(s) == ParseEnd(s, ParseValue(s, 1))

\* Map::insert(k, v)
Insert(m, k, v) ==
    IF \E i \in 1..Len(m) : m[i].k = k
    THEN [i \in 1..Len(m) |-> IF m[i].k = k THEN [k |-> k, v |-> v] ELSE m[i]]
    ELSE Append(m, [k |-> k, v |-> v])

RECURSIVE ValueOf(_)
RECURSIVE InsertAll(_, _)

\* the Map of the members m put into acc one after the other
InsertAll(acc, m) ==
    IF m = <<>> THEN acc
    ELSE InsertAll(Insert(acc, m[1].k, ValueOf(m[1].v)), Tail(m))

ValueOf(v) == IF v.t = "object" THEN JObject(InsertAll(<<>>, v.m)) ELSE v

ValueResult(r) == IF r.ok THEN ParseOk(ValueOf(r.v), r.i) ELSE r

\* serde_json::from_str::<serde_json::Value>
from_str_Value(s) == ValueResult(ParseText(s))

(***************************************************************************)
(* serde_json::to_string of a Value: the compact text, members in the      *)
(* order of the Map, in a string the characters " and \ and the control    *)
(* characters escaped and every other character as it is.                  *)
(***************************************************************************)
Escaped(c) ==
    CASE c \in {"\"", "\\"} -> <<"\\", c>>
      [] c = "\n" -> <<"\\", "n">>
      [] c = "\r" -> <<"\\", "r">>
      [] c = "\t" -> <<"\\", "t">>
      [] OTHER -> <<c>>

RECURSIVE Concat(_)
Concat(seqs) == IF seqs = <<>> THEN <<>> ELSE Head(seqs) \o Concat(Tail(seqs))

\* the string s between quotes with nothing escaped
EscapeString_Plain(s) == <<"\"">> \o s \o <<"\"">>

EscapeString(s) == <<"\"">> \o Concat([i \in 1..Len(s) |-> Escaped(s[i])]) \o <<"\"">>

RECURSIVE to_string(_)
to_string(v) ==
    CASE v.t = "null" -> NULL_LITERAL
      [] v.t = "string" -> EscapeString(v.s)
      [] v.t = "number" -> v.s
      [] v.t = "object" ->
           <<"{">>
           \o Concat([i \in 1..Len(v.m) |->
                         (IF i > 1 THEN <<",">> ELSE <<>>)
                         \o EscapeString(v.m[i].k) \o <<":">> \o to_string(v.m[i].v)])
           \o <<"}">>

(***************************************************************************)
(* The derived Deserialize of the SSE parsing types: a field of type       *)
(* String is required, a field of type Option<_> may be absent or null, a  *)
(* field of another type or given twice fails the whole decode, a field    *)
(* the struct does not name is ignored.  A decoded struct has the field ok *)
(* (the decode succeeded) beside its own, and a decoded Option<struct> is  *)
(* the record of ok and of the option o.                                   *)
(***************************************************************************)
Members(v, key) == SelectSeq(v.m, LAMBDA e : e.k = key)

\* a field of type String, from its members f
RequiredString(f) ==
    IF Len(f) = 1 /\ f[1].v.t = "string"
    THEN [ok |-> TRUE, s |-> f[1].v.s]
    ELSE [ok |-> FALSE, s |-> <<>>]

\* a field of type Option<String>, from its members f
OptionalString(f) ==
    IF Len(f) = 0 \/ (Len(f) = 1 /\ f[1].v.t = "null")
    THEN [ok |-> TRUE, o |-> <<>>]
    ELSE IF Len(f) = 1 /\ f[1].v.t = "string"
         THEN [ok |-> TRUE, o |-> <<f[1].v.s>>]
         ELSE [ok |-> FALSE, o |-> <<>>]

\* a field of type Option<usize>, from its members f
OptionalUsize(f) == Len(f) = 0 \/ (Len(f) = 1 /\ f[1].v.t \in {"null", "number"})

\* a field of type Option<struct>, from its members f: absent, the object to
\* decode, or a failure
OptionalObject(f) ==
    IF Len(f) = 0 \/ (Len(f) = 1 /\ f[1].v.t = "null")
    THEN [ok |-> TRUE, o |-> <<>>]
    ELSE IF Len(f) = 1 /\ f[1].v.t = "object"
         THEN [ok |-> TRUE, o |-> <<f[1].v>>]
         ELSE [ok |-> FALSE, o |-> <<>>]

\* the decoded Option<struct> of the decoded struct d
Decoded(d) == [ok |-> d.ok, o |-> <<d>>]

ContentBlockDeltaOf(ty, text, partial_json) ==
    [ok |-> ty.ok /\ text.ok /\ partial_json.ok,
     delta_type |-> ty.s, text |-> text.o, partial_json |-> partial_json.o]

ContentBlockDelta(f) ==
    IF f.o = <<>> THEN f
    ELSE Decoded(ContentBlockDeltaOf(RequiredString(Members(f.o[1], K_type)),
                                     OptionalString(Members(f.o[1], K_text)),
                                     OptionalString(Members(f.o[1], K_partial_json))))

ContentBlockStartOf(ty, id, name) ==
    [ok |-> ty.ok /\ id.ok /\ name.ok, block_type |-> ty.s, id |-> id.o, name |-> name.o]

ContentBlockStart(f) ==
    IF f.o = <<>> THEN f
    ELSE Decoded(ContentBlockStartOf(RequiredString(Members(f.o[1], K_type)),
                                     OptionalString(Members(f.o[1], K_id)),
                                     OptionalString(Members(f.o[1], K_name))))

MessageInfoOf(stop_reason) == [ok |-> stop_reason.ok, stop_reason |-> stop_reason.o]

MessageInfo(f) ==
    IF f.o = <<>> THEN f
    ELSE Decoded(MessageInfoOf(OptionalString(Members(f.o[1], K_stop_reason))))

ApiErrorOf(ty, message) ==
    [ok |-> ty.ok /\ message.ok, error_type |-> ty.s, message |-> message.s]

ApiError(f) ==
    IF f.o = <<>> THEN f
    ELSE Decoded(ApiErrorOf(RequiredString(Members(f.o[1], K_type)),
                            RequiredString(Members(f.o[1], K_message))))

StreamEventOf(ty, index, content_block, delta, message, error) ==
    [ok |-> ty.ok /\ index /\ content_block.ok /\ delta.ok /\ message.ok /\ error.ok,
     event_type |-> ty.s,
     content_block |-> content_block.o,
     delta |-> delta.o,
     message |-> message.o,
     error |-> error.o]

NoStreamEvent ==
    [ok |-> FALSE, event_type |-> <<>>, content_block |-> <<>>, delta |-> <<>>,
     message |-> <<>>, error |-> <<>>]

\* StreamEvent from the parsed text r
StreamEventFrom(r) ==
    IF ~r.ok \/ r.v.t # "object" THEN NoStreamEvent
    ELSE StreamEventOf(RequiredString(Members(r.v, K_type)),
                       OptionalUsize(Members(r.v, K_index)),
                       ContentBlockStart(OptionalObject(Members(r.v, K_content_block))),
                       ContentBlockDelta(OptionalObject(Members(r.v, K_delta))),
                       MessageInfo(OptionalObject(Members(r.v, K_message))),
                       ApiError(OptionalObject(Members(r.v, K_error))))

\* serde_json::from_str::<StreamEvent>
StreamEvent(data) == StreamEventFrom(ParseText(data))

(***************************************************************************)
(* The server and the transport.  The server sends events; an event is     *)
(* the record of its kind and of its (at most two) strings, and WireLine   *)
(* is the SSE data line that carries it: "data: ", the JSON text of the    *)
(* payload shape the parsing types read, encoded in UTF-8, and a newline.  *)
(***************************************************************************)
Event(kind, a, b) == [kind |-> kind, a |-> a, b |-> b]

\* the bytes of a JSON string: quoted, " and \ escaped, encoded in UTF-8
Quote(s) ==
    LET RECURSIVE Escape(_)
        Escape(t) ==
            IF t = <<>> THEN <<>>
            ELSE (CASE Head(t) \in {"\"", "\\"} -> <<"\\", Head(t)>>
                    [] Head(t) = "U+00E9" -> <<"xC3", "xA9">>
                    [] OTHER -> <<Head(t)>>)
                 \o Escape(Tail(t))
    IN  <<"\"">> \o Escape(s) \o <<"\"">>

\* {"k1":v1,"k2":v2,...} for the pairs <<k, v>>, v a JSON text
RECURSIVE JsonMembers(_)
JsonMembers(pairs) ==
    IF pairs = <<>> THEN <<>>
    ELSE Quote(pairs[1][1]) \o <<":">> \o pairs[1][2]
         \o (IF Len(pairs) > 1 THEN <<",">> ELSE <<>>) \o JsonMembers(Tail(pairs))

JsonObject(pairs) == <<"{">> \o JsonMembers(pairs) \o <<"}">>

WirePayload(e) ==
    CASE e.kind = "tool_start" ->
           JsonObject(<< <<K_type, Quote(T_content_block_start)>>,
                         <<K_content_block,
                           JsonObject(<< <<K_type, Quote(T_tool_use)>>,
                                         <<K_id, Quote(e.a)>>,
                                         <<K_name, Quote(e.b)>> >>)>> >>)
      [] e.kind = "text_start" ->
           JsonObject(<< <<K_type, Quote(T_content_block_start)>>,
                         <<K_content_block,
                           JsonObject(<< <<K_type, Quote(K_text)>>,
                                         <<K_text, Quote(<<>>)>> >>)>> >>)
      [] e.kind = "text_delta" ->
           JsonObject(<< <<K_type, Quote(T_content_block_delta)>>,
                         <<K_delta,
                           JsonObject(<< <<K_type, Quote(T_text_delta)>>,
                                         <<K_text, Quote(e.a)>> >>)>> >>)
      [] e.kind = "json_delta" ->
           JsonObject(<< <<K_type, Quote(T_content_block_delta)>>,
                         <<K_delta,
                           JsonObject(<< <<K_type, Quote(T_input_json_delta)>>,
                                         <<K_partial_json, Quote(e.a)>> >>)>> >>)
      [] e.kind = "block_stop" ->
           JsonObject(<< <<K_type, Quote(T_content_block_stop)>> >>)
      [] e.kind = "message_stop" ->
           JsonObject(<< <<K_type, Quote(T_message_stop)>> >>)
      [] e.kind = "message_stop_reason" ->
           JsonObject(<< <<K_type, Quote(T_message_stop)>>,
                         <<K_message,
                           JsonObject(<< <<K_stop_reason, Quote(e.a)>> >>)>> >>)
      [] e.kind = "error" ->
           JsonObject(<< <<K_type, Quote(T_error)>>,
                         <<K_error,
                           JsonObject(<< <<K_type, Quote(e.a)>>,
                                         <<K_message, Quote(e.b)>> >>)>> >>)
      \* a payload given as its text
      [] e.kind = "raw" -> e.a

\* the line of an event; an event of kind "line" is a line that is no data line,
\* given as its text, and one of kind "partial" the text of a line that the
\* server does not end with a newline
WireLine(e) ==
    CASE e.kind = "line" -> e.a \o <<"\n">>
      [] e.kind = "partial" -> e.a
      [] OTHER -> DATA_PREFIX \o WirePayload(e) \o <<"\n">>

\* a message_delta with the delta the server sends with it: no ContentBlockDelta,
\* as it has no "type"
PAYLOAD_message_delta_usage == <<"{", "\"", "t", "y", "p", "e", "\"", ":", "\"", "m", "e", "s", "s", "a", "g", "e", "_", "d", "e", "l", "t", "a", "\"", ",", "\"", "d", "e", "l", "t", "a", "\"", ":", "{", "\"", "s", "t", "o", "p", "_", "r", "e", "a", "s", "o", "n", "\"", ":", "\"", "e", "n", "d", "_", "t", "u", "r", "n", "\"", "}", "}">>

(***************************************************************************)
(* send_message_with_tools: the locals of the stream loop, as one record   *)
(* st.  emitted is the Sink: the app.emit calls in order.  frames lists    *)
(* the payloads handed to serde_json::from_str::<StreamEvent>, and ret is  *)
(* Some(error message) once the loop has returned Err(ClaudeError::Api).   *)
(* failing is the Sink's side of app.emit: the numbers of the calls of     *)
(* app.emit that return Err (the notification is not delivered).           *)
(***************************************************************************)
Notification(event) ==
    [event |-> event, chunk |-> <<>>, done |-> FALSE, id |-> <<>>, name |-> <<>>,
     input |-> JNull, stop_reason |-> <<>>, error |-> <<>>]

StreamChunk(chunk, done) ==
    [Notification("claude-stream-chunk") EXCEPT !.chunk = chunk, !.done = done]

MessageStopEvent(stop_reason) ==
    [Notification("claude-message-stop") EXCEPT !.stop_reason = stop_reason]

StreamError(error) ==
    [Notification("claude-stream-error") EXCEPT !.error = error]

ToolUseEvent(id, name, input) == [id |-> id, name |-> name, input |-> input]

ToolUseNotification(tool_event) ==
    [Notification("claude-tool-use") EXCEPT !.id = tool_event.id,
        !.name = tool_event.name, !.input = tool_event.input]

ToolUseState(id, name, input_json) == [id |-> id, name |-> name, input_json |-> input_json]

\* the Result of the next call of app.emit
EmitResult(st) == IF Len(st.emitted) + 1 \in st.failing THEN "Err" ELSE "Ok"

\* app.emit(..).map_err(..)? : an Err of app.emit ends the call
emit_Propagate(st, n) ==
    IF EmitResult(st) = "Err"
    THEN [st EXCEPT !.emitted = Append(@, n), !.ret = <<<<"e", "m", "i", "t">>>>]
    ELSE [st EXCEPT !.emitted = Append(@, n)]

\* app.emit that puts the notification before those the Sink has got
emit_First(st, n) == [st EXCEPT !.emitted = <<n>> \o @]

\* let _ = app.emit(..): the call is made and its Result is dropped
emit(st, n) == [st EXCEPT !.emitted = Append(@, n)]

unwrap_or_default(o) == IF o = <<>> THEN <<>> ELSE o[1]

\* OnContentBlockStart that keeps the block that is open
OnContentBlockStart_KeepOpen(st, event) ==
    IF /\ event.content_block # <<>> /\ event.content_block[1].block_type = T_tool_use
       /\ st.current_tool_use = <<>>
    THEN [st EXCEPT !.current_tool_use =
             <<ToolUseState(unwrap_or_default(event.content_block[1].id),
                            unwrap_or_default(event.content_block[1].name),
                            <<>>)>>]
    ELSE st

\* OnContentBlockStart where the start of a block that is no tool block closes
\* the block that is open
OnContentBlockStart_CloseOnText(st, event) ==
    IF event.content_block # <<>> /\ event.content_block[1].block_type = T_tool_use
    THEN [st EXCEPT !.current_tool_use =
             <<ToolUseState(unwrap_or_default(event.content_block[1].id),
                            unwrap_or_default(event.content_block[1].name),
                            <<>>)>>]
    ELSE [st EXCEPT !.current_tool_use = <<>>]

\* "content_block_start" => ...
OnContentBlockStart(st, event) ==
    IF event.content_block # <<>> /\ event.content_block[1].block_type = T_tool_use
    THEN [st EXCEPT !.current_tool_use =
             <<ToolUseState(unwrap_or_default(event.content_block[1].id),
                            unwrap_or_default(event.content_block[1].name),
                            <<>>)>>]
    ELSE st

\* OnTextDelta without its app.emit: the text is kept and the Sink is not told
OnTextDelta_Silent(st, delta) ==
    IF delta.text # <<>>
    THEN [st EXCEPT !.text_content = @ \o delta.text[1]]
    ELSE st

\* "text_delta" => ...
OnTextDelta(st, delta) ==
    IF delta.text # <<>>
    THEN emit([st EXCEPT !.text_content = @ \o delta.text[1]],
              StreamChunk(delta.text[1], FALSE))
    ELSE st

\* OnInputJsonDelta with the fragment put before the buffer instead of after it
OnInputJsonDelta_Prepend(st, delta) ==
    IF delta.partial_json # <<>> /\ st.current_tool_use # <<>>
    THEN [st EXCEPT !.current_tool_use[1].input_json = delta.partial_json[1] \o @]
    ELSE st

\* OnInputJsonDelta that keeps the fragment that comes while no block is open, in
\* a block without id and name
OnInputJsonDelta_Orphan(st, delta) ==
    IF delta.partial_json # <<>>
    THEN IF st.current_tool_use # <<>>
         THEN [st EXCEPT !.current_tool_use[1].input_json = @ \o delta.partial_json[1]]
         ELSE [st EXCEPT !.current_tool_use =
                  <<ToolUseState(<<>>, <<>>, delta.partial_json[1])>>]
    ELSE st

\* "input_json_delta" => ...
OnInputJsonDelta(st, delta) ==
    IF delta.partial_json # <<>> /\ st.current_tool_use # <<>>
    THEN [st EXCEPT !.current_tool_use[1].input_json = @ \o delta.partial_json[1]]
    ELSE st

\* "content_block_delta" => ...
OnContentBlockDelta(st, event) ==
    IF event.delta = <<>> THEN st
    ELSE CASE event.delta[1].delta_type = T_text_delta -> OnTextDelta(st, event.delta[1])
           [] event.delta[1].delta_type = T_input_json_delta ->
                 OnInputJsonDelta(st, event.delta[1])
           [] OTHER -> st

\* Result::unwrap_or_default(): Value::Null for a buffer that is no JSON
unwrap_or_Null(r) == IF r.ok THEN r.v ELSE JNull

\* .unwrap_or(serde_json::Value::Object(serde_json::Map::new()))
unwrap_or_Object(r) == IF r.ok THEN r.v ELSE JObject(<<>>)

\* ParseToolInput with unwrap_or_default() in the place of unwrap_or(..)
ParseToolInput_Null(input_json) == unwrap_or_Null(from_str_Value(input_json))

\* serde_json::from_str(&tool.input_json).unwrap_or(..)
ParseToolInput(input_json) == unwrap_or_Object(from_str_Value(input_json))

\* the tool call is kept and the Sink is not told
FinishToolUse_Silent(st, tool_event) ==
    [st EXCEPT !.tool_uses = Append(@, tool_event)]

\* app.emit("claude-tool-use", ..); tool_uses.push(tool_event)
FinishToolUse(st, tool_event) ==
    [emit(st, ToolUseNotification(tool_event)) EXCEPT !.tool_uses = Append(@, tool_event)]

\* OnContentBlockStop that records a tool call without id and name when no block
\* is open
OnContentBlockStop_Always(st) ==
    IF st.current_tool_use # <<>>
    THEN FinishToolUse([st EXCEPT !.current_tool_use = <<>>],
                       ToolUseEvent(st.current_tool_use[1].id,
                                    st.current_tool_use[1].name,
                                    ParseToolInput(st.current_tool_use[1].input_json)))
    ELSE FinishToolUse(st, ToolUseEvent(<<>>, <<>>, JObject(<<>>)))

\* "content_block_stop" => ...
OnContentBlockStop(st) ==
    IF st.current_tool_use # <<>>
    THEN FinishToolUse([st EXCEPT !.current_tool_use = <<>>],
                       ToolUseEvent(st.current_tool_use[1].id,
                                    st.current_tool_use[1].name,
                                    ParseToolInput(st.current_tool_use[1].input_json)))
    ELSE st

\* "message_stop" => ...
OnMessageStop(st, event) ==
    LET stop_reason ==
            IF event.message # <<>> /\ event.message[1].stop_reason # <<>>
            THEN event.message[1].stop_reason[1]
            ELSE st.stop_reason
        st1 == [st EXCEPT !.stop_reason = stop_reason]
    IN  emit(emit(st1, StreamChunk(<<>>, TRUE)), MessageStopEvent(stop_reason))

\* OnError without its return: the Sink is told and the loop goes on
OnError_NoReturn(st, event) ==
    IF event.error # <<>>
    THEN LET error_msg == event.error[1].error_type \o COLON_SPACE \o event.error[1].message
         IN  emit(st, StreamError(error_msg))
    ELSE st

\* "error" => ...
OnError(st, event) ==
    IF event.error # <<>>
    THEN LET error_msg == event.error[1].error_type \o COLON_SPACE \o event.error[1].message
         IN  [emit(st, StreamError(error_msg)) EXCEPT !.ret = <<error_msg>>]
    ELSE st

\* Dispatch with "message_delta" handled by the arm of "message_stop"
Dispatch_DeltaStops(st, event) ==
    CASE event.event_type = T_content_block_start -> OnContentBlockStart(st, event)
      [] event.event_type = T_content_block_delta -> OnContentBlockDelta(st, event)
      [] event.event_type = T_content_block_stop -> OnContentBlockStop(st)
      [] event.event_type \in {T_message_delta, T_message_stop} -> OnMessageStop(st, event)
      [] event.event_type = T_error -> OnError(st, event)
      [] OTHER -> st

\* match event.event_type.as_str()
Dispatch(st, event) ==
    CASE event.event_type = T_content_block_start -> OnContentBlockStart(st, event)
      [] event.event_type = T_content_block_delta -> OnContentBlockDelta(st, event)
      [] event.event_type = T_content_block_stop -> OnContentBlockStop(st)
      [] event.event_type = T_message_delta -> st
      [] event.event_type = T_message_stop -> OnMessageStop(st, event)
      [] event.event_type = T_error -> OnError(st, event)
      [] OTHER -> st

\* OnFrame with serde_json::from_str::<StreamEvent>(data)? : a payload that does
\* not decode ends the call with an error
OnFrame_Strict(st, event) ==
    IF event.ok THEN Dispatch(st, event) ELSE [st EXCEPT !.ret = <<DATA_PREFIX>>]

\* if let Ok(event) = serde_json::from_str::<StreamEvent>(data)
OnFrame(st, event) == IF event.ok THEN Dispatch(st, event) ELSE st

\* ProcessLine without `if data == "[DONE]" { continue; }`: the sentinel is
\* handed to the decoder
ProcessLine_KeepSentinel(st, line) ==
    IF starts_with(line, DATA_PREFIX)
    THEN LET data == SubSeq(line, Len(DATA_PREFIX) + 1, Len(line))
         IN  OnFrame([st EXCEPT !.frames = Append(@, data)], StreamEvent(data))
    ELSE st

\* the body of the inner loop for one extracted line
ProcessLine(st, line) ==
    IF starts_with(line, DATA_PREFIX)
    THEN LET data == SubSeq(line, Len(DATA_PREFIX) + 1, Len(line))
         IN  IF data = DONE_MARKER THEN st
             ELSE OnFrame([st EXCEPT !.frames = Append(@, data)], StreamEvent(data))
    ELSE st

\* while let Some(newline_pos) = buffer.find('\n')
RECURSIVE ProcessLines(_)
ProcessLines(st) ==
    LET newline_pos == find(st.buffer, "\n")
    IN  IF st.ret # <<>> \/ newline_pos = 0 THEN st
        ELSE LET line == trim(SubSeq(st.buffer, 1, newline_pos - 1))
                 rest == SubSeq(st.buffer, newline_pos + 1, Len(st.buffer))
             IN  ProcessLines(ProcessLine([st EXCEPT !.buffer = rest], line))

\* the body of the outer loop for one chunk
ProcessChunk(st, chunk) ==
    ProcessLines([st EXCEPT !.buffer = @ \o from_utf8_lossy(chunk)])

\* the code after the loop without its override: the stop reason stays as it is
FinalStopReason_Keep(tool_uses, stop_reason) == stop_reason

\* if !tool_uses.is_empty() && stop_reason == "end_turn"
FinalStopReason(tool_uses, stop_reason) ==
    IF tool_uses # <<>> /\ stop_reason = END_TURN THEN T_tool_use ELSE stop_reason

\* the locals before the first chunk
InitialLocals ==
    [buffer |-> <<>>, text_content |-> <<>>, tool_uses |-> <<>>, stop_reason |-> END_TURN,
     current_tool_use |-> <<>>, emitted |-> <<>>, frames |-> <<>>, ret |-> <<>>,
     failing |-> {}]

(***************************************************************************)
(* if !status.is_success() { .. }: the error returned for the status and   *)
(* the body of a response that is no success.                              *)
(***************************************************************************)
INVALID_API_KEY == <<"I", "n", "v", "a", "l", "i", "d", " ", "A", "P", "I", " ", "k", "e", "y">>

\* StatusCode::is_success
is_success(status) == status >= 200 /\ status <= 299

\* the Display of a StatusCode: the number and the canonical reason
StatusDisplay(status) ==
    CASE status = 403 -> <<"4", "0", "3", " ", "F", "o", "r", "b", "i", "d", "d", "e", "n">>
      [] status = 404 -> <<"4", "0", "4", " ", "N", "o", "t", " ", "F", "o", "u", "n", "d">>

\* json[key]: Value::Null when json is no object or has no such member
Index(json, key) ==
    IF json.t = "object" /\ Members(json, key) # <<>>
    THEN Members(json, key)[Len(Members(json, key))].v
    ELSE JNull

\* the error message read from error_body as it is, whatever JSON it holds
ErrorMessage_Raw(error_body, json) == error_body

\* json["error"]["message"].as_str().unwrap_or(&error_body) for the body that is
\* JSON, the body itself for the body that is not
ErrorMessage(error_body, json) ==
    IF json.ok /\ Index(Index(json.v, K_error), K_message).t = "string"
    THEN Index(Index(json.v, K_error), K_message).s
    ELSE error_body

\* return match status.as_u16() { .. }
StatusError(status, error_msg) ==
    CASE status = 401 -> [kind |-> "Api", error |-> INVALID_API_KEY]
      [] status = 429 -> [kind |-> "RateLimited", error |-> error_msg]
      [] status = 400 -> [kind |-> "Api", error |-> error_msg]
      [] status >= 500 /\ status <= 599 ->
           [kind |-> "Api", error |-> <<"S", "e", "r", "v", "e", "r", " ", "e", "r", "r", "o", "r", ":", " ">> \o error_msg]
      [] OTHER ->
           [kind |-> "Api",
            error |-> <<"E", "r", "r", "o", "r", " ", "(">> \o StatusDisplay(status) \o <<")", ":", " ">> \o error_msg]

(***************************************************************************)
(* send_message: the command without tools.  Its stream loop extracts the  *)
(* lines as the loop of send_message_with_tools does; its match has the    *)
(* arms "content_block_delta", "message_stop" and "error".  st is the      *)
(* record of its locals buffer and full_response, of its Sink emitted and  *)
(* of ret, Some(error message) once the loop has returned Err.             *)
(***************************************************************************)
\* the match of send_message without its arm "error"
send_message_Dispatch_NoError(st, event) ==
    CASE event.event_type = T_content_block_delta ->
           IF /\ event.delta # <<>>
              /\ event.delta[1].delta_type = T_text_delta
              /\ event.delta[1].text # <<>>
           THEN emit([st EXCEPT !.full_response = @ \o event.delta[1].text[1]],
                     StreamChunk(event.delta[1].text[1], FALSE))
           ELSE st
      [] event.event_type = T_message_stop -> emit(st, StreamChunk(<<>>, TRUE))
      [] OTHER -> st

\* match event.event_type.as_str() of send_message
send_message_Dispatch(st, event) ==
    CASE event.event_type = T_content_block_delta ->
           IF /\ event.delta # <<>>
              /\ event.delta[1].delta_type = T_text_delta
              /\ event.delta[1].text # <<>>
           THEN emit([st EXCEPT !.full_response = @ \o event.delta[1].text[1]],
                     StreamChunk(event.delta[1].text[1], FALSE))
           ELSE st
      [] event.event_type = T_message_stop -> emit(st, StreamChunk(<<>>, TRUE))
      [] event.event_type = T_error ->
           IF event.error # <<>>
           THEN [emit(st, StreamError(event.error[1].error_type \o COLON_SPACE
                                          \o event.error[1].message))
                   EXCEPT !.ret = <<event.error[1].error_type \o COLON_SPACE
                                       \o event.error[1].message>>]
           ELSE st
      [] OTHER -> st

\* if let Ok(event) = serde_json::from_str::<StreamEvent>(data) of send_message
send_message_Frame(st, event) == IF event.ok THEN send_message_Dispatch(st, event) ELSE st

\* the body of the inner loop of send_message for one extracted line
send_message_Line(st, line) ==
    IF starts_with(line, DATA_PREFIX)
    THEN IF SubSeq(line, Len(DATA_PREFIX) + 1, Len(line)) = DONE_MARKER THEN st
         ELSE send_message_Frame(st, StreamEvent(SubSeq(line, Len(DATA_PREFIX) + 1, Len(line))))
    ELSE st

\* while let Some(newline_pos) = buffer.find('\n') of send_message
RECURSIVE send_message_Lines(_)
send_message_Lines(st) ==
    LET newline_pos == find(st.buffer, "\n")
    IN  IF st.ret # <<>> \/ newline_pos = 0 THEN st
        ELSE LET line == trim(SubSeq(st.buffer, 1, newline_pos - 1))
                 rest == SubSeq(st.buffer, newline_pos + 1, Len(st.buffer))
             IN  send_message_Lines(send_message_Line([st EXCEPT !.buffer = rest], line))

\* the body of the outer loop of send_message for one chunk
send_message_Chunk(st, chunk) ==
    send_message_Lines([st EXCEPT !.buffer = @ \o from_utf8_lossy(chunk)])

(***************************************************************************)
(* keychain.rs: the commands get_api_key, set_api_key and delete_api_key.  *)
(* kc.password is the credential the keychain of the system holds for      *)
(* SERVICE_NAME and ACCOUNT_NAME (an Option), kc.storage the value of      *)
(* FALLBACK_STORAGE under fallback_key() (an Option).  o is what the       *)
(* keychain does in this call: "EntryErr" (get_entry() is Err), "Ok",      *)
(* "NoEntry" (Err(keyring::Error::NoEntry)) or "Err" (any other Err).      *)
(***************************************************************************)
\* what get_password and delete_credential may do: Ok needs a credential, NoEntry
\* needs none (set_password may do all but NoEntry)
KeyringOutcomes(kc) ==
    {"EntryErr", "Err"} \cup (IF kc.password # <<>> THEN {"Ok"} ELSE {"NoEntry"})

\* the Option in the Ok that get_api_key returns
get_api_key(kc, o) == IF o = "Ok" THEN kc.password ELSE kc.storage

\* set_api_key(key): the state it leaves; it returns Ok(()) in every case
set_api_key(kc, key, o) ==
    IF o = "Ok"
    THEN [kc EXCEPT !.password = <<key>>, !.storage = <<key>>]
    ELSE [kc EXCEPT !.storage = <<key>>]

\* delete_api_key(): the state it leaves; it returns Ok(()) in every case
delete_api_key(kc, o) ==
    IF o = "Ok"
    THEN [kc EXCEPT !.password = <<>>, !.storage = <<>>]
    ELSE [kc EXCEPT !.storage = <<>>]

(***************************************************************************)
(* auth.rs: the stores of the session and the functions that read and      *)
(* write them.  An AuthSession is the record of its access_token, its      *)
(* refresh_token, its expires_at and its user (the commands never read the *)
(* user, and the model has one).  a.password is the credential the         *)
(* keychain of the system holds for SERVICE_NAME and AUTH_ACCOUNT_NAME,    *)
(* a.file the content of session.json and a.memory the value of            *)
(* AUTH_FALLBACK_STORAGE under auth_fallback_key(), each an Option of a    *)
(* String; a.data_dir says whether dirs::data_dir() is Some.  The String   *)
(* that serde_json writes for a session is the session between its two     *)
(* braces, and a String of any other shape is not the JSON of a session.   *)
(* ko is what the keychain does in a call, as for keychain.rs, and fo what *)
(* the file system does: "Ok", "Err" (the call fails and leaves the file   *)
(* as it was) or, for a write, "Torn" (fs::write fails after it has        *)
(* truncated the file and written a part of the String).                   *)
(***************************************************************************)
AuthSession(n, expires_at) ==
    [access_token |-> <<"access", n>>, refresh_token |-> <<"refresh", n>>,
     expires_at |-> expires_at, user |-> "user"]

\* serde_json::to_string(session)
to_string_AuthSession(session) == <<"{", session, "}">>

\* serde_json::from_str::<AuthSession>(&json).ok()
from_str_AuthSession(json) ==
    IF Len(json) = 3 /\ json[1] = "{" /\ json[3] = "}" THEN <<json[2]>> ELSE <<>>

\* what fs::read_to_string and fs::remove_file may do: Ok needs the file
FileOutcomes(a) == {"Err"} \cup (IF a.file # <<>> THEN {"Ok"} ELSE {})

\* save_session_to_file(session): the state it leaves and whether it returns Ok
save_session_to_file(a, session, fo) ==
    IF ~a.data_dir THEN [a |-> a, ok |-> TRUE]
    ELSE CASE fo = "Ok" ->
                [a |-> [a EXCEPT !.file = <<to_string_AuthSession(session)>>], ok |-> TRUE]
           [] fo = "Torn" ->
                [a |-> [a EXCEPT !.file = <<SubSeq(to_string_AuthSession(session), 1, 2)>>],
                 ok |-> FALSE]
           [] OTHER -> [a |-> a, ok |-> FALSE]

\* load_session_from_file()
load_session_from_file(a, fo) ==
    IF a.data_dir /\ fo = "Ok" /\ a.file # <<>> THEN from_str_AuthSession(a.file[1]) ELSE <<>>

\* clear_session_file()
clear_session_file(a, fo) ==
    IF a.data_dir /\ fo = "Ok" THEN [a EXCEPT !.file = <<>>] ELSE a

\* save_session(session): the state it leaves and whether it returns Ok
save_session(a, session, ko, fo) ==
    LET json == to_string_AuthSession(session)
        saved == save_session_to_file(a, session, fo)
    IN  IF ko = "Ok"
        THEN [a |-> [saved.a EXCEPT !.password = <<json>>], ok |-> TRUE]
        ELSE IF ~saved.ok
             THEN [a |-> saved.a, ok |-> FALSE]
             ELSE [a |-> [saved.a EXCEPT !.memory = <<json>>], ok |-> TRUE]

\* load_session() with the file read before the keychain
load_session_FileFirst(a, ko, fo) ==
    LET from_keychain == IF ko = "Ok" /\ a.password # <<>>
                         THEN from_str_AuthSession(a.password[1]) ELSE <<>>
        from_file == load_session_from_file(a, fo)
        from_memory == IF a.memory # <<>> THEN from_str_AuthSession(a.memory[1]) ELSE <<>>
    IN  IF from_file # <<>> THEN from_file
        ELSE IF from_keychain # <<>> THEN from_keychain
        ELSE from_memory

\* load_session(): the Option it returns
load_session(a, ko, fo) ==
    LET from_keychain == IF ko = "Ok" /\ a.password # <<>>
                         THEN from_str_AuthSession(a.password[1]) ELSE <<>>
        from_file == load_session_from_file(a, fo)
        from_memory == IF a.memory # <<>> THEN from_str_AuthSession(a.memory[1]) ELSE <<>>
    IN  IF from_keychain # <<>> THEN from_keychain
        ELSE IF from_file # <<>> THEN from_file
        ELSE from_memory

\* clear_session(): the state it leaves
clear_session(a, ko, fo) ==
    LET deleted == IF ko = "Ok" THEN [a EXCEPT !.password = <<>>] ELSE a
    IN  [clear_session_file(deleted, fo) EXCEPT !.memory = <<>>]

\* the calls of the three functions with all that the keychain and the file system
\* may do in them: all the outcomes when a.faulty, and no failure when not
save_session_Any(a, session) ==
    {save_session(a, session, ko, fo) :
        ko \in IF a.faulty THEN {"EntryErr", "Err", "Ok"} ELSE {"Ok"},
        fo \in IF a.faulty THEN {"Ok", "Err", "Torn"} ELSE {"Ok"}}

load_session_Any(a) ==
    {load_session(a, ko, fo) :
        ko \in IF a.faulty THEN KeyringOutcomes(a) ELSE KeyringOutcomes(a) \ {"EntryErr", "Err"},
        fo \in IF a.faulty \/ a.file = <<>> THEN FileOutcomes(a) ELSE {"Ok"}}

clear_session_Any(a) ==
    {clear_session(a, ko, fo) :
        ko \in IF a.faulty THEN KeyringOutcomes(a) ELSE KeyringOutcomes(a) \ {"EntryErr", "Err"},
        fo \in IF a.faulty \/ a.file = <<>> THEN FileOutcomes(a) ELSE {"Ok"}}

\* a request the client sends to the server
Request(kind, token) == [kind |-> kind, token |-> token]

\* the response of the server to a request: no response (the request fails in the
\* network), a status that is no success, a success whose body is not a
\* SupabaseAuthResponse, or a success with a session
NetworkFailure == [kind |-> "Network", session |-> <<>>]
StatusFailure == [kind |-> "Status", session |-> <<>>]
BodyFailure == [kind |-> "Body", session |-> <<>>]
Granted(session) == [kind |-> "Ok", session |-> <<session>>]

\* refresh_session_internal(refresh_token) once the request was sent and the server
\* has answered with response: the state it leaves and the session of its Ok
\* (<<>> when it returns Err)
refresh_session_internal(a, response) ==
    CASE response.kind = "Ok" ->
            {[a |-> saved.a, ret |-> IF saved.ok THEN response.session ELSE <<>>] :
                saved \in save_session_Any(a, response.session[1])}
      [] response.kind = "Status" ->
            {[a |-> cleared, ret |-> <<>>] : cleared \in clear_session_Any(a)}
      [] OTHER -> {[a |-> a, ret |-> <<>>]}

\* get_session() from the answer to its refresh request on: the state it leaves
\* and the Option of its Ok
get_session_Refreshed(a, response) ==
    UNION {IF r.ret # <<>>
           THEN {r}
           ELSE {[a |-> cleared, ret |-> <<>>] : cleared \in clear_session_Any(r.a)} :
              r \in refresh_session_internal(a, response)}

\* get_session() at the time now, response being what the server answers if it is
\* asked to refresh: the state it leaves, the Option of its Ok, the requests it has
\* sent and the session it has loaded
get_session(a, now, response) ==
    UNION {IF session = <<>>
           THEN {[a |-> a, ret |-> <<>>, requests |-> <<>>, loaded |-> <<>>]}
           ELSE IF session[1].expires_at <= now
           THEN {[a |-> r.a, ret |-> r.ret,
                  requests |-> <<Request("refresh", session[1].refresh_token)>>,
                  loaded |-> session] :
                    r \in get_session_Refreshed(a, response)}
           ELSE {[a |-> a, ret |-> session, requests |-> <<>>, loaded |-> session]} :
              session \in load_session_Any(a)}

\* get_access_token() from the answer to its refresh request on: the state it
\* leaves and the String of its Ok (<<>> when it returns Err)
get_access_token_Refreshed(a, response) ==
    UNION {IF r.ret # <<>>
           THEN {[a |-> r.a, ret |-> <<r.ret[1].access_token>>]}
           ELSE {[a |-> cleared, ret |-> <<>>] : cleared \in clear_session_Any(r.a)} :
              r \in refresh_session_internal(a, response)}

\* sign_out(): the state it leaves and the requests it has sent; it returns Ok(())
sign_out(a) ==
    UNION {{[a |-> cleared, ret |-> <<>>,
             requests |-> IF session = <<>> THEN <<>>
                          ELSE <<Request("logout", session[1].access_token)>>] :
                session \in load_session_Any(cleared)} :
              cleared \in clear_session_Any(a)}

\* no command of auth.rs was called
NoAuthCommand ==
    [op |-> "none", ok |-> TRUE, ret |-> <<>>, ko |-> "Ok", fo |-> "Ok",
     requests |-> <<>>, before |-> <<>>, loaded |-> <<>>]

\* the session the stores hold for a call in which the keychain and the file
\* system work
Stored(a) ==
    load_session(a, IF a.password # <<>> THEN "Ok" ELSE "NoEntry",
                 IF a.file # <<>> THEN "Ok" ELSE "Err")

\* the stores are empty, the server has issued no session and no command of
\* auth.rs was called.  now is the time of the clock, issued the number of
\* sessions the server has issued and valid the refresh tokens it accepts; last is
\* the last command that returned: what it returned, what the keychain and the
\* file system did in it (for load_session), the requests it has sent, the
\* session that was stored when it was called and the session its load_session
\* has returned (for get_session).  saved is the session of the last
\* save_session that returned Ok, as long as no save_session and no clear_session
\* was called since; signed_out is TRUE from the return of sign_out to the next
\* sign-in that returns Ok.  callers are the commands that run at the same time:
\* the place of each (pc: "idle" before it is called, "requested" while its refresh
\* request is on its way, "answered" once the server has answered it, "done" once
\* it has returned), the refresh token it has sent, the answer of the server and
\* what it has returned.  faulty says whether the keychain and the file system may
\* fail in this run.
NoAuth ==
    [password |-> <<>>, file |-> <<>>, memory |-> <<>>, data_dir |-> TRUE, faulty |-> TRUE,
     now |-> 0, issued |-> 0, valid |-> {}, callers |-> <<>>,
     last |-> NoAuthCommand, saved |-> <<>>, signed_out |-> FALSE]

(***************************************************************************)
(* file.rs: the commands write_document and rename_document, and the file  *)
(* system they work on.  A path is the String of a file name.  f.entries   *)
(* are the entries of the directory, each the name and the inode of a      *)
(* file, and f.data[n] is the content of inode n; f.case_sensitive says    *)
(* whether the file system tells names apart that differ in letter case    *)
(* (when it does not, it keeps the case of the name a file was given).     *)
(***************************************************************************)
EXT_md == <<"m", "d">>
EXT_writing_json == <<"w", "r", "i", "t", "i", "n", "g", ".", "j", "s", "o", "n">>
SUFFIX_tmp == <<".", "t", "m", "p">>

\* char::to_lowercase on the letters of the model's file names
LowerChar(c) ==
    CASE c = "A" -> "a" [] c = "B" -> "b" [] c = "M" -> "m" [] c = "D" -> "d" [] OTHER -> c

\* str::to_lowercase
to_lowercase(path) == [i \in 1..Len(path) |-> LowerChar(path[i])]

\* the place of the last "." of a file name, 0 when it has none
LastDot(path) ==
    IF \E i \in 1..Len(path) : path[i] = "."
    THEN CHOOSE i \in 1..Len(path) :
            path[i] = "." /\ \A j \in (i + 1)..Len(path) : path[j] # "."
    ELSE 0

\* Path::extension(): None without a "." after the first character
extension(path) ==
    IF LastDot(path) <= 1 THEN <<>> ELSE <<SubSeq(path, LastDot(path) + 1, Len(path))>>

\* PathBuf::set_extension(ext)
set_extension(path, ext) ==
    (IF LastDot(path) <= 1 THEN path ELSE SubSeq(path, 1, LastDot(path) - 1))
        \o <<".">> \o ext

\* get_sidecar_path(md_path): the path of its Ok, <<>> for Err(InvalidPath)
get_sidecar_path(md_path) ==
    IF extension(md_path) # <<EXT_md>> THEN <<>>
    ELSE <<set_extension(md_path, EXT_writing_json)>>

\* the path itself in the place of the path of the temp file
temp_path_InPlace(path) == path

\* format!("{}.tmp", path)
temp_path(path) == path \o SUFFIX_tmp

\* the entries of the directory that a path names
SameName(f, p, q) ==
    IF f.case_sensitive THEN p = q ELSE to_lowercase(p) = to_lowercase(q)

Lookup(f, path) == {e \in f.entries : SameName(f, e.name, path)}

\* Path::exists()
exists(f, path) == Lookup(f, path) # {}

InodeOf(f, path) == (CHOOSE e \in Lookup(f, path) : TRUE).inode

\* what a reader of the path sees: the content of the file, <<>> when there is none
read_to_string(f, path) ==
    IF exists(f, path) THEN <<f.data[InodeOf(f, path)]>> ELSE <<>>

\* File::create(path), the first half of fs::write: the file is truncated when it
\* exists and created empty when it does not
File_create(f, path) ==
    IF exists(f, path)
    THEN [f EXCEPT !.data[InodeOf(f, path)] = <<>>]
    ELSE [f EXCEPT !.entries = @ \cup {[name |-> path, inode |-> Len(f.data) + 1]},
                   !.data = Append(@, <<>>)]

\* write_all(content), the second half of fs::write, on the file that was opened:
\* the first n characters of content are written from the start of the file
File_write_all(f, inode, content, n) ==
    [f EXCEPT !.data[inode] = SubSeq(content, 1, n) \o SubSeq(@, n + 1, Len(@))]

\* fs::rename(from, to) when from exists: the entry of from takes the name to, in
\* the place of the entry that had it
fs_rename(f, from, to) ==
    [f EXCEPT !.entries =
        (@ \ (Lookup(f, to) \cup Lookup(f, from)))
            \cup {[name |-> to, inode |-> InodeOf(f, from)]}]

\* what fs::rename may do: NotFound when from does not exist, Ok or, when the file
\* system may fail, another Err when it does
RenameOutcomes(f, from) ==
    IF ~exists(f, from) THEN {"NotFound"}
    ELSE {"Ok"} \cup (IF f.faulty THEN {"Err"} ELSE {})

\* rename_document(old_path, new_path), o1 and o2 being what the two fs::rename do:
\* the state it leaves and what it returns
rename_document(f, old_path, new_path, o1, o2) ==
    IF extension(old_path) # <<EXT_md>> \/ extension(new_path) # <<EXT_md>>
    THEN [f |-> f, ret |-> "InvalidPath"]
    ELSE IF ~exists(f, old_path)
    THEN [f |-> f, ret |-> "InvalidPath"]
    ELSE IF exists(f, new_path) /\ to_lowercase(old_path) # to_lowercase(new_path)
    THEN [f |-> f, ret |-> "InvalidPath"]
    ELSE IF o1 # "Ok"
    THEN [f |-> f, ret |-> "Io"]
    ELSE LET renamed == fs_rename(f, old_path, new_path)
             old_sidecar == get_sidecar_path(old_path)[1]
             new_sidecar == get_sidecar_path(new_path)[1]
         IN  IF ~exists(renamed, old_sidecar) THEN [f |-> renamed, ret |-> "Ok"]
             ELSE IF o2 # "Ok" THEN [f |-> renamed, ret |-> "Io"]
             ELSE [f |-> fs_rename(renamed, old_sidecar, new_sidecar), ret |-> "Ok"]

\* no command of file.rs was called
NoFileCommand ==
    [op |-> "none", old_path |-> <<>>, new_path |-> <<>>, ret |-> "Ok", entries |-> {}]

\* a call of write_document that was not made
IdleWrite == [pc |-> "idle", path |-> <<>>, content |-> <<>>, fd |-> 0, ok |-> TRUE]

\* the directory is empty and no command of file.rs was called.  calls are the
\* calls of write_document: the place of each (pc: "idle" before it is made,
\* "created" once File::create has returned, "written" once fs::write has, "done"
\* once the call has returned), its arguments, the file it has opened and whether
\* it has returned Ok.  before is what a reader of the path saw when the first
\* call was made.  last is the last call of rename_document: its arguments, what
\* it returned and the entries of the directory when it was called.  faulty says whether the
\* file system may fail in this run.
NoFiles ==
    [case_sensitive |-> TRUE, faulty |-> FALSE, entries |-> {}, data |-> <<>>,
     calls |-> <<>>, before |-> <<>>, last |-> NoFileCommand]

(***************************************************************************)
(* The state of one call of send_message_with_tools after a success        *)
(* status: the locals of the stream loop, the Sink, the place of the call  *)
(* (pc: "streaming" while it awaits stream.next(), "done" once it has      *)
(* returned) and its return value.  sent lists the events the server has   *)
(* sent and pending the bytes the transport holds and has not delivered.   *)
(* failing is fixed by the Sink for the whole call.  response is the head  *)
(* of the HTTP response and what its body says: the status, the message    *)
(* the server gives and the format of the body that carries it ("json":    *)
(* the error object of the API, "text": the message as it is); pc is       *)
(* "requesting" while the call awaits it.  other is a second call of       *)
(* send_message_with_tools on the same AppHandle: its own locals, place,   *)
(* return value, events and transport, "idle" until it is made; the Sink   *)
(* (emitted) is the one of the application for both calls.  pc is          *)
(* "abandoned" once the caller has dropped the future of the call.         *)
(* text_call is a call of send_message, the command without tools: its     *)
(* locals, its own Sink (the notifications it sends are kept apart from    *)
(* those of the call with tools, to be compared with them), its place and  *)
(* its return value.  keychain is the state the commands of keychain.rs    *)
(* read and write, auth the state of the commands of auth.rs (the stores   *)
(* of the session, the clock and the server) and files the state of the    *)
(* commands of file.rs (the directory of the documents).                   *)
(***************************************************************************)
VARIABLES buffer, text_content, tool_uses, stop_reason, current_tool_use,
          emitted, frames, pc, result, sent, pending, failing, response, other,
          text_call, keychain, auth, files

vars == <<buffer, text_content, tool_uses, stop_reason, current_tool_use,
          emitted, frames, pc, result, sent, pending, failing, response, other,
          text_call, keychain, auth, files>>

\* the events a call of the model receives, and the lines of a byte stream
MaxFrames == 4
MaxLines == 2
\* the transport cuts a stream it delivers to two calls every ChunkStride bytes,
\* or delivers all it holds
ChunkStride == 7
\* the calls of app.emit that may fail are among the first MaxFailing
MaxFailing == 2

TEXT_Hi == <<"H", "i">>
TEXT_e_acute == <<"U+00E9">>
ID_t1 == <<"t", "1">>
ID_t2 == <<"t", "2">>
NAME_lookup == <<"l", "o", "o", "k", "u", "p">>
NAME_search == <<"s", "e", "a", "r", "c", "h">>
FRAGMENT_open == <<"{", "\"", "q", "\"", ":">>
FRAGMENT_close == <<"\"", "c", "a", "t", "\"", "}">>
MAX_TOKENS == <<"m", "a", "x", "_", "t", "o", "k", "e", "n", "s">>
OVERLOADED_ERROR == <<"o", "v", "e", "r", "l", "o", "a", "d", "e", "d", "_", "e", "r", "r", "o", "r">>
OVERLOADED == <<"O", "v", "e", "r", "l", "o", "a", "d", "e", "d">>

Events ==
    { Event("tool_start", ID_t1, NAME_lookup),
      Event("tool_start", ID_t2, NAME_search),
      Event("text_delta", TEXT_Hi, <<>>),
      Event("text_delta", TEXT_e_acute, <<>>),
      Event("json_delta", FRAGMENT_open, <<>>),
      Event("json_delta", FRAGMENT_close, <<>>),
      Event("block_stop", <<>>, <<>>),
      Event("message_stop", <<>>, <<>>),
      Event("message_stop_reason", END_TURN, <<>>),
      Event("message_stop_reason", MAX_TOKENS, <<>>),
      Event("error", OVERLOADED_ERROR, OVERLOADED) }

ByteEvents ==
    { Event("text_delta", TEXT_e_acute, <<>>),
      Event("message_stop", <<>>, <<>>) }

\* the payloads the match of the stream loop has no effect for: a kind this
\* version does not know ("ping"), a message_delta, a message_delta with its
\* delta, and a text that is no JSON
Anomalies ==
    { Event("raw", <<"{", "\"", "t", "y", "p", "e", "\"", ":", "\"", "p", "i", "n", "g", "\"", "}">>, <<>>),
      Event("raw", <<"{", "\"", "t", "y", "p", "e", "\"", ":", "\"", "m", "e", "s", "s", "a", "g", "e", "_", "d", "e", "l", "t", "a", "\"", "}">>, <<>>),
      Event("raw", PAYLOAD_message_delta_usage, <<>>),
      Event("raw", <<"{", "\"", "t", "y", "p", "e", "\"", ":">>, <<>>) }

\* the events of a stream that holds such payloads
FrameEvents ==
    { Event("tool_start", ID_t1, NAME_lookup),
      Event("text_delta", TEXT_Hi, <<>>),
      Event("json_delta", FRAGMENT_open, <<>>),
      Event("json_delta", FRAGMENT_close, <<>>),
      Event("block_stop", <<>>, <<>>),
      Event("message_stop_reason", MAX_TOKENS, <<>>) } \cup Anomalies

\* the events that make the code call app.emit
SinkEvents ==
    { Event("tool_start", ID_t1, NAME_lookup),
      Event("text_delta", TEXT_Hi, <<>>),
      Event("block_stop", <<>>, <<>>),
      Event("message_stop", <<>>, <<>>),
      Event("error", OVERLOADED_ERROR, OVERLOADED) }

\* the events of blocks: the start of a tool block and of a text block, the
\* deltas of both and the stop
BlockEvents ==
    { Event("tool_start", ID_t1, NAME_lookup),
      Event("text_start", <<>>, <<>>),
      Event("text_delta", TEXT_Hi, <<>>),
      Event("json_delta", FRAGMENT_open, <<>>),
      Event("json_delta", FRAGMENT_close, <<>>),
      Event("block_stop", <<>>, <<>>) }

\* the lines that carry no event: a blank line, a comment sent to keep the
\* connection alive, an "event:" line (with the CR of a CR LF line end), and the
\* data line of the sentinel
NonFrameLines ==
    { Event("line", <<>>, <<>>),
      Event("line", <<":", " ", "k", "e", "e", "p", "-", "a", "l", "i", "v", "e">>, <<>>),
      Event("line", <<"e", "v", "e", "n", "t", ":", " ", "p", "i", "n", "g", "\r">>, <<>>),
      Event("raw", DONE_MARKER, <<>>) }

\* the events of a stream that holds such lines
LineEvents ==
    { Event("tool_start", ID_t1, NAME_lookup),
      Event("text_delta", TEXT_Hi, <<>>),
      Event("json_delta", FRAGMENT_open, <<>>),
      Event("block_stop", <<>>, <<>>) } \cup NonFrameLines

\* the events of a stream that two commands read, cut into chunks
ChunkEvents ==
    { Event("tool_start", ID_t1, NAME_lookup),
      Event("text_delta", TEXT_Hi, <<>>),
      Event("block_stop", <<>>, <<>>),
      Event("message_stop", <<>>, <<>>),
      Event("error", OVERLOADED_ERROR, OVERLOADED) }

\* the data lines of these events without their newline
PartialLines == {Event("partial", DATA_PREFIX \o WirePayload(e), <<>>) : e \in ChunkEvents}

\* the API keys the user may set
Keys == { <<"s", "k", "-", "a">>, <<"s", "k", "-", "b">>, <<"s", "k", "-", "c">> }

\* a message of the server that holds quotes
MESSAGE_quoted == <<"s", "l", "o", "w", " ", "\"", "d", "o", "w", "n", "\"">>

SuccessResponse == [status |-> 200, message |-> <<>>, format |-> "text"]

\* the responses of the server: the success whose body is the stream, and for
\* each other status the messages the server may give (none, plain, with
\* quotes, the text of a JSON object), in both formats
Responses ==
    {SuccessResponse} \cup
    [status : {400, 401, 403, 404, 429, 500, 503},
     message : {<<>>, OVERLOADED, MESSAGE_quoted, <<"{", "\"", "e", "r", "r", "o", "r", "\"", ":", "\"", "b", "u", "s", "y", "\"", "}">>},
     format : {"json", "text"}]

\* the body of a response that is no success
ErrorBody(r) ==
    IF r.format = "json"
    THEN JsonObject(<< <<K_type, Quote(T_error)>>,
                       <<K_error,
                         JsonObject(<< <<K_type, Quote(OVERLOADED_ERROR)>>,
                                       <<K_message, Quote(r.message)>> >>)>> >>)
    ELSE r.message

\* the events of the streams whose tool inputs are serialized again; the inputs
\* hold a string with escapes beside a number, and white space, a key given
\* twice, an object in an object and a character outside ASCII
RoundTripEvents ==
    { Event("tool_start", ID_t1, NAME_lookup),
      Event("json_delta", FRAGMENT_open, <<>>),
      Event("json_delta", FRAGMENT_close, <<>>),
      Event("json_delta", <<"{", "\"", "a", "\"", ":", "\"", "x", "\\", "\"", "y", "\\", "\\", "z", "\\", "n", "\"", ",", "\"", "n", "\"", ":", "1", "2", "}">>, <<>>),
      Event("json_delta", <<"{", " ", "\"", "k", "\"", " ", ":", " ", "n", "u", "l", "l", " ", ",", " ", "\"", "k", "\"", " ", ":", " ", "{", "\"", "e", "\"", ":", "\"", "U+00E9", "\"", "}", " ", "}">>, <<>>),
      Event("block_stop", <<>>, <<>>) }

\* a fresh tool block whose one fragment is the JSON text of the input of tool
Reserialized(tool) ==
    << Event("tool_start", ID_t2, NAME_search),
       Event("json_delta", to_string(tool.input), <<>>),
       Event("block_stop", <<>>, <<>>) >>

\* the events of the streams of two calls
TwoCallEvents ==
    { Event("tool_start", ID_t1, NAME_lookup),
      Event("text_delta", TEXT_Hi, <<>>),
      Event("block_stop", <<>>, <<>>) }

\* the line of the event e after its "data: "
AfterPrefix(e) == SubSeq(WireLine(e), Len(DATA_PREFIX) + 1, Len(WireLine(e)))

RECURSIVE WireLines(_)
WireLines(events) ==
    IF events = <<>> THEN <<>> ELSE WireLine(Head(events)) \o WireLines(Tail(events))

NoResult ==
    [kind |-> "none", text_content |-> <<>>, tool_uses |-> <<>>, stop_reason |-> <<>>,
     error |-> <<>>]

\* Ok(AssistantResponse { text_content, tool_uses, stop_reason })
AssistantResponse(t, u, r) ==
    [kind |-> "Ok", text_content |-> t, tool_uses |-> u, stop_reason |-> r, error |-> <<>>]

\* Err(ClaudeError::Api(_)), Err(ClaudeError::Network(_))
ClaudeError(kind, message) == [NoResult EXCEPT !.kind = kind, !.error = message]

\* a call that was not made yet
IdleCall ==
    [buffer |-> <<>>, text_content |-> <<>>, tool_uses |-> <<>>, stop_reason |-> <<>>,
     current_tool_use |-> <<>>, frames |-> <<>>, pc |-> "idle", result |-> NoResult,
     sent |-> <<>>, pending |-> <<>>]

\* send_message was not called
IdleTextCall ==
    [buffer |-> <<>>, full_response |-> <<>>, emitted |-> <<>>, ret |-> <<>>,
     pc |-> "idle", result |-> NoResult]

\* no command of keychain.rs was called: the last two commands, their keys and
\* what they returned
NoCommand == [op |-> "none", key |-> <<>>, ret |-> <<>>]

NoKeychain == [password |-> <<>>, storage |-> <<>>, last |-> NoCommand, prev |-> NoCommand]

\* the locals of the second call with the buffer of the first in the place of its
\* own, as if the buffer were one static of the module
OtherLocals_SharedBuffer ==
    [buffer |-> buffer, text_content |-> other.text_content,
     tool_uses |-> other.tool_uses, stop_reason |-> other.stop_reason,
     current_tool_use |-> other.current_tool_use, emitted |-> emitted,
     frames |-> other.frames, ret |-> <<>>, failing |-> failing]

\* the locals of the second call
OtherLocals ==
    [buffer |-> other.buffer, text_content |-> other.text_content,
     tool_uses |-> other.tool_uses, stop_reason |-> other.stop_reason,
     current_tool_use |-> other.current_tool_use, emitted |-> emitted,
     frames |-> other.frames, ret |-> <<>>, failing |-> failing]

Locals ==
    [buffer |-> buffer, text_content |-> text_content, tool_uses |-> tool_uses,
     stop_reason |-> stop_reason, current_tool_use |-> current_tool_use,
     emitted |-> emitted, frames |-> frames, ret |-> <<>>, failing |-> failing]

InitCall ==
    /\ buffer = InitialLocals.buffer
    /\ text_content = InitialLocals.text_content
    /\ tool_uses = InitialLocals.tool_uses
    /\ stop_reason = InitialLocals.stop_reason
    /\ current_tool_use = InitialLocals.current_tool_use
    /\ emitted = InitialLocals.emitted
    /\ frames = InitialLocals.frames
    /\ pc = "streaming"
    /\ result = NoResult

\* the server sends its events while the call runs
Init ==
    /\ InitCall /\ sent = <<>> /\ pending = <<>> /\ failing = {}
    /\ response = SuccessResponse
    /\ other = IdleCall
    /\ text_call = IdleTextCall
    /\ keychain = NoKeychain
    /\ auth = NoAuth
    /\ files = NoFiles

\* the request was sent and the call awaits the response
InitStatus ==
    /\ buffer = InitialLocals.buffer
    /\ text_content = InitialLocals.text_content
    /\ tool_uses = InitialLocals.tool_uses
    /\ stop_reason = InitialLocals.stop_reason
    /\ current_tool_use = InitialLocals.current_tool_use
    /\ emitted = InitialLocals.emitted
    /\ frames = InitialLocals.frames
    /\ pc = "requesting"
    /\ result = NoResult
    /\ sent = <<>> /\ pending = <<>> /\ failing = {}
    /\ response \in Responses
    /\ other = IdleCall
    /\ text_call = IdleTextCall
    /\ keychain = NoKeychain
    /\ auth = NoAuth
    /\ files = NoFiles

\* the Sink fails any of the first calls of app.emit
InitSink ==
    /\ InitCall /\ sent = <<>> /\ pending = <<>>
    /\ failing \in SUBSET (1..MaxFailing)
    /\ response = SuccessResponse
    /\ other = IdleCall
    /\ text_call = IdleTextCall
    /\ keychain = NoKeychain
    /\ auth = NoAuth
    /\ files = NoFiles

\* the bytes of the whole stream are in the transport when the call starts
InitBytes ==
    /\ InitCall
    /\ sent \in UNION {[1..n -> ByteEvents] : n \in 0..MaxLines}
    /\ pending = WireLines(sent)
    /\ failing = {}
    /\ response = SuccessResponse
    /\ other = IdleCall
    /\ text_call = IdleTextCall
    /\ keychain = NoKeychain
    /\ auth = NoAuth
    /\ files = NoFiles

\* the bytes of the whole stream are in the transport when send_message and
\* send_message_with_tools start to read it, each on its own response; the server
\* may close the connection without ending the last line
InitChunks ==
    /\ InitCall
    /\ sent \in {s \in UNION {[1..n -> ChunkEvents \cup PartialLines] : n \in 0..MaxLines} :
                    \A i \in 1..(Len(s) - 1) : s[i] \notin PartialLines}
    /\ pending = WireLines(sent)
    /\ failing = {}
    /\ response = SuccessResponse
    /\ other = IdleCall
    /\ text_call = [IdleTextCall EXCEPT !.pc = "streaming"]
    /\ keychain = NoKeychain
    /\ auth = NoAuth
    /\ files = NoFiles

\* the application has started and no command was called: FALLBACK_STORAGE is
\* empty, and the keychain of the system holds what an earlier run left in it
InitKeychain ==
    /\ buffer = <<>> /\ text_content = <<>> /\ tool_uses = <<>> /\ stop_reason = <<>>
    /\ current_tool_use = <<>> /\ emitted = <<>> /\ frames = <<>>
    /\ pc = "idle" /\ result = NoResult
    /\ sent = <<>> /\ pending = <<>> /\ failing = {}
    /\ response = SuccessResponse
    /\ other = IdleCall
    /\ text_call = IdleTextCall
    /\ keychain \in {[NoKeychain EXCEPT !.password = p] : p \in {<<>>} \cup {<<k>> : k \in Keys}}
    /\ auth = NoAuth
    /\ files = NoFiles

\* the command get_api_key
GetApiKey ==
    /\ \E o \in KeyringOutcomes(keychain) :
          keychain' = [keychain EXCEPT
                          !.prev = keychain.last,
                          !.last = [op |-> "get", key |-> <<>>,
                                    ret |-> get_api_key(keychain, o)]]
    /\ UNCHANGED <<buffer, text_content, tool_uses, stop_reason, current_tool_use,
                   emitted, frames, pc, result, sent, pending, failing, response, other,
                   text_call, auth, files>>

\* the command set_api_key
SetApiKey ==
    /\ \E key \in Keys, o \in {"EntryErr", "Err", "Ok"} :
          keychain' = [set_api_key(keychain, key, o) EXCEPT
                          !.prev = keychain.last,
                          !.last = [op |-> "set", key |-> <<key>>, ret |-> <<>>]]
    /\ UNCHANGED <<buffer, text_content, tool_uses, stop_reason, current_tool_use,
                   emitted, frames, pc, result, sent, pending, failing, response, other,
                   text_call, auth, files>>

\* the command delete_api_key
DeleteApiKey ==
    /\ \E o \in KeyringOutcomes(keychain) :
          keychain' = [delete_api_key(keychain, o) EXCEPT
                          !.prev = keychain.last,
                          !.last = [op |-> "delete", key |-> <<>>, ret |-> <<>>]]
    /\ UNCHANGED <<buffer, text_content, tool_uses, stop_reason, current_tool_use,
                   emitted, frames, pc, result, sent, pending, failing, response, other,
                   text_call, auth, files>>

\* the sessions the server issues in a run and the ticks of the clock
MaxSessions == 2
MaxNow == 2

\* a String the keychain or session.json holds that is not the JSON of a session
Unparsable == <<"?">>

\* the application has started and no command was called: AUTH_FALLBACK_STORAGE is
\* empty, and the keychain and session.json hold what an earlier run left in them
InitAuth ==
    /\ buffer = <<>> /\ text_content = <<>> /\ tool_uses = <<>> /\ stop_reason = <<>>
    /\ current_tool_use = <<>> /\ emitted = <<>> /\ frames = <<>>
    /\ pc = "idle" /\ result = NoResult
    /\ sent = <<>> /\ pending = <<>> /\ failing = {}
    /\ response = SuccessResponse
    /\ other = IdleCall
    /\ text_call = IdleTextCall
    /\ keychain = NoKeychain
    /\ \E left \in {<<>>, <<Unparsable>>, <<to_string_AuthSession(AuthSession(0, 1))>>} :
          auth \in {[NoAuth EXCEPT !.password = p, !.file = f, !.data_dir = d] :
                        p \in {<<>>, left}, f \in {<<>>, left}, d \in BOOLEAN}
    /\ ~auth.data_dir => auth.file = <<>>
    /\ files = NoFiles

\* what the server may answer to a request for a session: the session it issues
\* expires at the next tick of the clock
SessionResponses(a) ==
    {NetworkFailure, StatusFailure, BodyFailure}
        \cup (IF a.issued < MaxSessions
              THEN {Granted(AuthSession(a.issued + 1, a.now + 1))} ELSE {})

\* the server has answered the request of a command with answer
Answered(a, answer) ==
    IF answer.kind = "Ok"
    THEN [a EXCEPT !.issued = @ + 1, !.valid = {answer.session[1].refresh_token}]
    ELSE a

\* the command sign_in (sign_up and handle_oauth_callback end as it does)
SignIn ==
    /\ \E answer \in SessionResponses(auth) :
          IF answer.kind = "Ok"
          THEN \E saved \in save_session_Any(auth, answer.session[1]) :
                  auth' = [Answered(saved.a, answer) EXCEPT
                              !.last = [NoAuthCommand EXCEPT
                                           !.op = "sign_in", !.ok = saved.ok,
                                           !.ret = IF saved.ok THEN answer.session ELSE <<>>,
                                           !.requests = <<Request("password", <<>>)>>,
                                           !.before = Stored(auth)],
                              !.saved = IF saved.ok THEN answer.session ELSE <<>>,
                              !.signed_out = auth.signed_out /\ ~saved.ok]
          ELSE auth' = [auth EXCEPT
                           !.last = [NoAuthCommand EXCEPT
                                        !.op = "sign_in", !.ok = FALSE,
                                        !.requests = <<Request("password", <<>>)>>,
                                        !.before = Stored(auth)]]
    /\ UNCHANGED <<buffer, text_content, tool_uses, stop_reason, current_tool_use,
                   emitted, frames, pc, result, sent, pending, failing, response, other,
                   text_call, keychain, files>>

\* a call of load_session()
LoadSession ==
    /\ \E ko \in KeyringOutcomes(auth), fo \in FileOutcomes(auth) :
          auth' = [auth EXCEPT
                      !.last = [NoAuthCommand EXCEPT
                                   !.op = "load_session", !.ko = ko, !.fo = fo,
                                   !.ret = load_session(auth, ko, fo),
                                   !.before = Stored(auth)]]
    /\ UNCHANGED <<buffer, text_content, tool_uses, stop_reason, current_tool_use,
                   emitted, frames, pc, result, sent, pending, failing, response, other,
                   text_call, keychain, files>>

\* the command sign_out
SignOut ==
    /\ \E r \in sign_out(auth) :
          auth' = [r.a EXCEPT
                      !.last = [NoAuthCommand EXCEPT
                                   !.op = "sign_out", !.requests = r.requests,
                                   !.before = Stored(auth)],
                      !.saved = <<>>,
                      !.signed_out = TRUE]
    /\ UNCHANGED <<buffer, text_content, tool_uses, stop_reason, current_tool_use,
                   emitted, frames, pc, result, sent, pending, failing, response, other,
                   text_call, keychain, files>>

\* the command get_session
GetSession ==
    /\ \E answer \in SessionResponses(auth) :
          \E r \in get_session(auth, auth.now, answer) :
              auth' = [(IF r.requests # <<>> THEN Answered(r.a, answer) ELSE r.a) EXCEPT
                          !.last = [NoAuthCommand EXCEPT
                                       !.op = "get_session", !.ret = r.ret,
                                       !.requests = r.requests,
                                       !.before = Stored(auth), !.loaded = r.loaded],
                          !.saved = IF r.requests # <<>> THEN r.ret ELSE auth.saved]
    /\ UNCHANGED <<buffer, text_content, tool_uses, stop_reason, current_tool_use,
                   emitted, frames, pc, result, sent, pending, failing, response, other,
                   text_call, keychain, files>>

\* the clock of the system advances
Tick ==
    /\ auth.now < MaxNow
    /\ auth' = [auth EXCEPT !.now = @ + 1]
    /\ UNCHANGED <<buffer, text_content, tool_uses, stop_reason, current_tool_use,
                   emitted, frames, pc, result, sent, pending, failing, response, other,
                   text_call, keychain, files>>

\* a command that was not called
IdleCaller == [op |-> "none", pc |-> "idle", token |-> <<>>,
               answer |-> [kind |-> "none", session |-> <<>>], ret |-> <<>>]

\* the commands that refresh a session
RefreshCommands == {"get_session", "get_access_token", "refresh_session"}

\* two commands are about to be called while the stores hold a session that has
\* expired and whose refresh token the server accepts; the keychain and the file
\* system work
InitRefresh ==
    /\ buffer = <<>> /\ text_content = <<>> /\ tool_uses = <<>> /\ stop_reason = <<>>
    /\ current_tool_use = <<>> /\ emitted = <<>> /\ frames = <<>>
    /\ pc = "idle" /\ result = NoResult
    /\ sent = <<>> /\ pending = <<>> /\ failing = {}
    /\ response = SuccessResponse
    /\ other = IdleCall
    /\ text_call = IdleTextCall
    /\ keychain = NoKeychain
    /\ \E stored \in {<<to_string_AuthSession(AuthSession(0, 0))>>} :
          auth \in {[NoAuth EXCEPT !.password = p, !.file = f, !.memory = m,
                                   !.faulty = FALSE,
                                   !.valid = {AuthSession(0, 0).refresh_token},
                                   !.callers = <<IdleCaller, IdleCaller>>] :
                        p \in {<<>>, stored}, f \in {<<>>, stored}, m \in {<<>>, stored}}
    /\ Stored(auth) # <<>>
    /\ files = NoFiles

\* a command is called: it runs to the await of its refresh request, or returns
\* when it sends none
CallerStart(c) ==
    /\ auth.callers[c].pc = "idle"
    /\ \E op \in RefreshCommands, session \in load_session_Any(auth) :
          auth' = [auth EXCEPT !.callers[c] =
                      IF session = <<>>
                      THEN [IdleCaller EXCEPT !.op = op, !.pc = "done"]
                      ELSE IF op = "refresh_session" \/ session[1].expires_at <= auth.now
                      THEN [IdleCaller EXCEPT !.op = op, !.pc = "requested",
                                             !.token = <<session[1].refresh_token>>]
                      ELSE [IdleCaller EXCEPT
                               !.op = op, !.pc = "done",
                               !.ret = IF op = "get_session" THEN session
                                       ELSE <<session[1].access_token>>]]
    /\ UNCHANGED <<buffer, text_content, tool_uses, stop_reason, current_tool_use,
                   emitted, frames, pc, result, sent, pending, failing, response, other,
                   text_call, keychain, files>>

\* the server answers the refresh request of a command, or the request is lost:
\* it issues a session for a refresh token it accepts, and accepts the refresh
\* token of that session in the place of the one it was sent
ServerAnswers(c) ==
    /\ auth.callers[c].pc = "requested"
    /\ \E answer \in {NetworkFailure,
                      IF auth.callers[c].token[1] \in auth.valid
                      THEN Granted(AuthSession(auth.issued + 1, auth.now + 1))
                      ELSE StatusFailure} :
          auth' = [Answered(auth, answer) EXCEPT
                      !.callers[c].pc = "answered", !.callers[c].answer = answer]
    /\ UNCHANGED <<buffer, text_content, tool_uses, stop_reason, current_tool_use,
                   emitted, frames, pc, result, sent, pending, failing, response, other,
                   text_call, keychain, files>>

\* a command runs from the answer to its refresh request to its return
CallerFinish(c) ==
    /\ auth.callers[c].pc = "answered"
    /\ \E r \in CASE auth.callers[c].op = "get_session" ->
                        get_session_Refreshed(auth, auth.callers[c].answer)
                  [] auth.callers[c].op = "get_access_token" ->
                        get_access_token_Refreshed(auth, auth.callers[c].answer)
                  [] OTHER -> refresh_session_internal(auth, auth.callers[c].answer) :
          auth' = [r.a EXCEPT !.callers[c].pc = "done", !.callers[c].ret = r.ret]
    /\ UNCHANGED <<buffer, text_content, tool_uses, stop_reason, current_tool_use,
                   emitted, frames, pc, result, sent, pending, failing, response, other,
                   text_call, keychain, files>>

\* the names and the contents of the files of the model
PATH_a_md == <<"a", ".", "m", "d">>
PATH_A_md == <<"A", ".", "m", "d">>
PATH_b_md == <<"b", ".", "m", "d">>
PATH_a_txt == <<"a", ".", "t", "x", "t">>
DocOld == <<"o", "l">>
DocA == <<"a", "a">>
DocB == <<"b">>

\* the directory that holds the files docs, each a name and a content
Directory(f, docs) ==
    [f EXCEPT !.entries = {[name |-> docs[i].name, inode |-> i] : i \in 1..Len(docs)},
              !.data = [i \in 1..Len(docs) |-> docs[i].content]]

\* the sequences of the elements of a set, each at most once
RECURSIVE Listings(_)
Listings(S) ==
    IF S = {} THEN {<<>>}
    ELSE LET x == CHOOSE x \in S : TRUE
         IN  Listings(S \ {x}) \cup {<<x>> \o l : l \in Listings(S \ {x})}

\* the document and the temp file that earlier calls may have left at the path
WriteDirectories(path) ==
    {target \o temp :
        target \in {<<>>, <<[name |-> path, content |-> DocOld]>>},
        temp \in {<<>>} \cup {<<[name |-> path \o SUFFIX_tmp, content |-> left]>> :
                                left \in {SubSeq(DocOld, 1, 1), DocOld}}}

InitFiles ==
    /\ buffer = <<>> /\ text_content = <<>> /\ tool_uses = <<>> /\ stop_reason = <<>>
    /\ current_tool_use = <<>> /\ emitted = <<>> /\ frames = <<>>
    /\ pc = "idle" /\ result = NoResult
    /\ sent = <<>> /\ pending = <<>> /\ failing = {}
    /\ response = SuccessResponse
    /\ other = IdleCall
    /\ text_call = IdleTextCall
    /\ keychain = NoKeychain
    /\ auth = NoAuth

\* write_document(path, content) is about to be called, on a file system that may
\* fail
InitWrite ==
    /\ InitFiles
    /\ \E docs \in WriteDirectories(PATH_a_md), content \in {DocA, DocB, DocOld},
          case_sensitive \in BOOLEAN :
          files = [Directory(NoFiles, docs) EXCEPT
                      !.case_sensitive = case_sensitive,
                      !.faulty = TRUE,
                      !.calls = <<[IdleWrite EXCEPT !.path = PATH_a_md,
                                                    !.content = content]>>,
                      !.before = read_to_string(Directory(NoFiles, docs), PATH_a_md)]

\* write_document(path, A) and write_document(path, B) are about to be called, on
\* a file system that does not fail
InitTwoWrites ==
    /\ InitFiles
    /\ \E docs \in WriteDirectories(PATH_a_md), case_sensitive \in BOOLEAN :
          files = [Directory(NoFiles, docs) EXCEPT
                      !.case_sensitive = case_sensitive,
                      !.calls = <<[IdleWrite EXCEPT !.path = PATH_a_md, !.content = DocA],
                                  [IdleWrite EXCEPT !.path = PATH_a_md, !.content = DocB]>>,
                      !.before = read_to_string(Directory(NoFiles, docs), PATH_a_md)]

\* rename_document is about to be called in a directory that holds some of the
\* documents and some of their sidecars, on a file system that may fail
InitRename ==
    /\ InitFiles
    /\ \E names \in SUBSET {PATH_a_md, PATH_A_md, PATH_b_md, get_sidecar_path(PATH_a_md)[1]},
          case_sensitive \in BOOLEAN :
          /\ \A p, q \in names : to_lowercase(p) = to_lowercase(q) /\ p # q => case_sensitive
          /\ \E docs \in {l \in Listings({[name |-> n, content |-> n] : n \in names}) :
                              Len(l) = Cardinality(names)} :
                files = [Directory(NoFiles, docs) EXCEPT
                            !.case_sensitive = case_sensitive, !.faulty = TRUE]

\* what a call of the file system may do when what it works on exists
FaultOutcomes(f) == {"Ok"} \cup (IF f.faulty THEN {"Err"} ELSE {})

\* write_document: File::create(&temp_path) in tokio::fs::write
WriteCreate(c) ==
    /\ files.calls[c].pc = "idle"
    /\ \E o \in FaultOutcomes(files) :
          IF o = "Ok"
          THEN \E created \in {File_create(files, temp_path(files.calls[c].path))} :
                  files' = [created EXCEPT
                               !.calls[c].pc = "created",
                               !.calls[c].fd = InodeOf(created, temp_path(files.calls[c].path))]
          ELSE files' = [files EXCEPT !.calls[c].pc = "done", !.calls[c].ok = FALSE]
    /\ UNCHANGED <<buffer, text_content, tool_uses, stop_reason, current_tool_use,
                   emitted, frames, pc, result, sent, pending, failing, response, other,
                   text_call, keychain, auth>>

\* write_document: write_all(content) in tokio::fs::write; when it fails it has
\* written less than the content
WriteAll(c) ==
    /\ files.calls[c].pc = "created"
    /\ \E o \in FaultOutcomes(files) :
          IF o = "Ok"
          THEN files' = [File_write_all(files, files.calls[c].fd, files.calls[c].content,
                                        Len(files.calls[c].content)) EXCEPT
                            !.calls[c].pc = "written"]
          ELSE \E n \in 0..(Len(files.calls[c].content) - 1) :
                  files' = [File_write_all(files, files.calls[c].fd,
                                           files.calls[c].content, n) EXCEPT
                               !.calls[c].pc = "done", !.calls[c].ok = FALSE]
    /\ UNCHANGED <<buffer, text_content, tool_uses, stop_reason, current_tool_use,
                   emitted, frames, pc, result, sent, pending, failing, response, other,
                   text_call, keychain, auth>>

\* write_document: tokio::fs::rename(&temp_path, &path) and the return
WriteRename(c) ==
    /\ files.calls[c].pc = "written"
    /\ \E o \in RenameOutcomes(files, temp_path(files.calls[c].path)) :
          IF o = "Ok"
          THEN files' = [fs_rename(files, temp_path(files.calls[c].path),
                                   files.calls[c].path) EXCEPT
                            !.calls[c].pc = "done"]
          ELSE files' = [files EXCEPT !.calls[c].pc = "done", !.calls[c].ok = FALSE]
    /\ UNCHANGED <<buffer, text_content, tool_uses, stop_reason, current_tool_use,
                   emitted, frames, pc, result, sent, pending, failing, response, other,
                   text_call, keychain, auth>>

\* the command rename_document
RenameDocument ==
    /\ \E old_path \in {PATH_a_md, PATH_a_txt}, new_path \in {PATH_A_md, PATH_b_md, PATH_a_txt},
          o1, o2 \in FaultOutcomes(files) :
          \E r \in {rename_document(files, old_path, new_path, o1, o2)} :
              files' = [r.f EXCEPT
                           !.last = [op |-> "rename_document", old_path |-> old_path,
                                     new_path |-> new_path, ret |-> r.ret,
                                     entries |-> files.entries]]
    /\ UNCHANGED <<buffer, text_content, tool_uses, stop_reason, current_tool_use,
                   emitted, frames, pc, result, sent, pending, failing, response, other,
                   text_call, keychain, auth>>

\* let status = response.status(); if !status.is_success() { .. return .. }
ReceiveStatus ==
    /\ pc = "requesting"
    /\ IF is_success(response.status)
       THEN pc' = "streaming" /\ result' = result
       ELSE \E e \in {StatusError(response.status,
                                  ErrorMessage(ErrorBody(response),
                                               from_str_Value(ErrorBody(response))))} :
                pc' = "done" /\ result' = ClaudeError(e.kind, e.error)
    /\ UNCHANGED <<buffer, text_content, tool_uses, stop_reason, current_tool_use,
                   emitted, frames, sent, pending, failing, response, other, text_call,
                   keychain, auth, files>>

\* stream.next().await is Some(Ok(chunk)): one pass of the outer loop
Deliver(chunk) ==
    \E st \in {ProcessChunk(Locals, chunk)} :
        /\ buffer' = st.buffer
        /\ text_content' = st.text_content
        /\ tool_uses' = st.tool_uses
        /\ stop_reason' = st.stop_reason
        /\ current_tool_use' = st.current_tool_use
        /\ emitted' = st.emitted
        /\ frames' = st.frames
        /\ failing' = failing
        /\ response' = response
        /\ other' = other
        /\ keychain' = keychain
        /\ auth' = auth
        /\ files' = files
        /\ IF st.ret # <<>>
           THEN pc' = "done" /\ result' = ClaudeError("Api", st.ret[1])
           ELSE pc' = pc /\ result' = result

\* the server sends one event and the transport delivers its line as one chunk
ReceiveEvent ==
    /\ pc = "streaming"
    /\ Len(sent) < MaxFrames
    /\ \E e \in Events :
          /\ sent' = Append(sent, e)
          /\ Deliver(WireLine(e))
    /\ UNCHANGED <<pending, text_call>>

\* the server sends one event of a stream that holds payloads without effect
ReceiveFrame ==
    /\ pc = "streaming"
    /\ Len(sent) < MaxFrames
    /\ \E e \in FrameEvents :
          /\ sent' = Append(sent, e)
          /\ Deliver(WireLine(e))
    /\ UNCHANGED <<pending, text_call>>

\* the server sends one event of a block
ReceiveBlock ==
    /\ pc = "streaming"
    /\ Len(sent) < MaxFrames
    /\ \E e \in BlockEvents :
          /\ sent' = Append(sent, e)
          /\ Deliver(WireLine(e))
    /\ UNCHANGED <<pending, text_call>>

\* the server sends one line of a stream that holds lines without event
ReceiveLine ==
    /\ pc = "streaming"
    /\ Len(sent) < MaxFrames
    /\ \E e \in LineEvents :
          /\ sent' = Append(sent, e)
          /\ Deliver(WireLine(e))
    /\ UNCHANGED <<pending, text_call>>

\* the server sends one event that makes the code call app.emit
ReceiveNotified ==
    /\ pc = "streaming"
    /\ Len(sent) < MaxFrames
    /\ \E e \in SinkEvents :
          /\ sent' = Append(sent, e)
          /\ Deliver(WireLine(e))
    /\ UNCHANGED <<pending, text_call>>

\* the server sends one event of a stream with tool inputs
ReceiveToolInput ==
    /\ pc = "streaming"
    /\ Len(sent) < MaxFrames
    /\ \E e \in RoundTripEvents :
          /\ sent' = Append(sent, e)
          /\ Deliver(WireLine(e))
    /\ UNCHANGED <<pending, text_call>>

\* the server sends the input of a tool call of this stream again, serialized, as
\* the one fragment of a fresh tool block
ReceiveReserialized ==
    /\ pc = "streaming"
    /\ Len(sent) < MaxFrames
    /\ \E k \in 1..Len(tool_uses) :
          /\ sent' = sent \o Reserialized(tool_uses[k])
          /\ Deliver(WireLines(Reserialized(tool_uses[k])))
    /\ UNCHANGED <<pending, text_call>>

\* the transport delivers a line in two chunks: the "data: " of the line of one
\* more event, or the rest of the line it holds
ReceivePart ==
    /\ pc = "streaming"
    /\ IF pending = <<>>
       THEN /\ Len(sent) + Len(other.sent) < MaxFrames
            /\ \E e \in TwoCallEvents :
                  /\ sent' = Append(sent, e)
                  /\ pending' = AfterPrefix(e)
                  /\ Deliver(DATA_PREFIX)
       ELSE /\ sent' = sent
            /\ pending' = <<>>
            /\ Deliver(pending)
    /\ UNCHANGED text_call

\* the caller drops the future of the call while it awaits the next chunk
Abandon ==
    /\ pc = "streaming"
    /\ pc' = "abandoned"
    /\ UNCHANGED <<buffer, text_content, tool_uses, stop_reason, current_tool_use,
                   emitted, frames, result, sent, pending, failing, response, other, text_call,
                   keychain, auth, files>>

\* the second call is made: its locals are created
OtherStart ==
    /\ other.pc = "idle"
    /\ pc # "requesting"
    /\ other' = [IdleCall EXCEPT !.pc = "streaming", !.stop_reason = InitialLocals.stop_reason]
    /\ UNCHANGED <<buffer, text_content, tool_uses, stop_reason, current_tool_use,
                   emitted, frames, pc, result, sent, pending, failing, response, text_call,
                   keychain, auth, files>>

\* one pass of the outer loop of the second call, its line in two chunks as well
OtherReceivePart ==
    /\ other.pc = "streaming"
    /\ \E d \in (IF other.pending # <<>>
                 THEN {[chunk |-> other.pending, sent |-> other.sent, pending |-> <<>>]}
                 ELSE IF Len(sent) + Len(other.sent) < MaxFrames
                 THEN {[chunk |-> DATA_PREFIX, sent |-> Append(other.sent, e),
                        pending |-> AfterPrefix(e)] : e \in TwoCallEvents}
                 ELSE {}) :
          \E st \in {ProcessChunk(OtherLocals, d.chunk)} :
              /\ emitted' = st.emitted
              /\ other' =
                    [buffer |-> st.buffer, text_content |-> st.text_content,
                     tool_uses |-> st.tool_uses, stop_reason |-> st.stop_reason,
                     current_tool_use |-> st.current_tool_use, frames |-> st.frames,
                     pc |-> IF st.ret # <<>> THEN "done" ELSE "streaming",
                     result |-> IF st.ret # <<>> THEN ClaudeError("Api", st.ret[1])
                                ELSE other.result,
                     sent |-> d.sent, pending |-> d.pending]
    /\ UNCHANGED <<buffer, text_content, tool_uses, stop_reason, current_tool_use,
                   frames, pc, result, sent, pending, failing, response, text_call,
                   keychain, auth, files>>

\* the stream of the second call ends: the code after its loop
OtherStreamEnd ==
    /\ other.pc = "streaming"
    /\ other.pending = <<>>
    /\ other' =
          [other EXCEPT
              !.stop_reason = FinalStopReason(other.tool_uses, other.stop_reason),
              !.result = AssistantResponse(other.text_content, other.tool_uses,
                             FinalStopReason(other.tool_uses, other.stop_reason)),
              !.pc = "done"]
    /\ UNCHANGED <<buffer, text_content, tool_uses, stop_reason, current_tool_use,
                   emitted, frames, pc, result, sent, pending, failing, response, text_call,
                   keychain, auth, files>>

\* the transports of both calls deliver the same next chunk: one pass of the
\* outer loop of send_message_with_tools and one of send_message
ReceiveBoth ==
    /\ pc = "streaming"
    /\ text_call.pc = "streaming"
    /\ \E n \in {k \in 1..Len(pending) : k % ChunkStride = 0 \/ k = Len(pending)} :
          /\ pending' = SubSeq(pending, n + 1, Len(pending))
          /\ Deliver(SubSeq(pending, 1, n))
          /\ \E st \in {send_message_Chunk(text_call, SubSeq(pending, 1, n))} :
                text_call' =
                    [st EXCEPT
                        !.pc = IF st.ret # <<>> THEN "done" ELSE "streaming",
                        !.result = IF st.ret # <<>> THEN ClaudeError("Api", st.ret[1])
                                   ELSE st.result]
    /\ UNCHANGED sent

\* stream.next().await of send_message is None: Ok(full_response)
TextStreamEnd ==
    /\ text_call.pc = "streaming"
    /\ pending = <<>>
    /\ text_call' =
          [text_call EXCEPT
              !.pc = "done",
              !.result = [NoResult EXCEPT !.kind = "Ok",
                                          !.text_content = text_call.full_response]]
    /\ UNCHANGED <<buffer, text_content, tool_uses, stop_reason, current_tool_use,
                   emitted, frames, pc, result, sent, pending, failing, response, other,
                   keychain, auth, files>>

\* the transport delivers the next n bytes it holds as one chunk
ReceiveBytes ==
    /\ pc = "streaming"
    /\ \E n \in 1..Len(pending) :
          /\ pending' = SubSeq(pending, n + 1, Len(pending))
          /\ Deliver(SubSeq(pending, 1, n))
    /\ UNCHANGED <<sent, text_call>>

\* the code after the loop with the block that is open finished as by a
\* "content_block_stop"
StreamEnd_FinishOpen ==
    /\ pc = "streaming"
    /\ pending = <<>>
    /\ \E st \in {OnContentBlockStop(Locals)} :
          /\ tool_uses' = st.tool_uses
          /\ emitted' = st.emitted
          /\ current_tool_use' = st.current_tool_use
          /\ stop_reason' = FinalStopReason(st.tool_uses, stop_reason)
          /\ result' = AssistantResponse(text_content, st.tool_uses, stop_reason')
    /\ pc' = "done"
    /\ UNCHANGED <<buffer, text_content, frames, sent, pending, failing, response, other,
                   text_call, keychain, auth, files>>

\* the code after the loop with what is left in the buffer taken for a last line
StreamEnd_LastLine ==
    /\ pc = "streaming"
    /\ pending = <<>>
    /\ \E st \in {ProcessChunk(Locals, <<"\n">>)} :
          /\ buffer' = st.buffer
          /\ text_content' = st.text_content
          /\ tool_uses' = st.tool_uses
          /\ current_tool_use' = st.current_tool_use
          /\ emitted' = st.emitted
          /\ frames' = st.frames
          /\ stop_reason' = FinalStopReason(st.tool_uses, st.stop_reason)
          /\ result' = AssistantResponse(st.text_content, st.tool_uses, stop_reason')
    /\ pc' = "done"
    /\ UNCHANGED <<sent, pending, failing, response, other, text_call, keychain, auth, files>>

\* stream.next().await is None: the code after the loop
StreamEnd ==
    /\ pc = "streaming"
    /\ pending = <<>>
    /\ stop_reason' = FinalStopReason(tool_uses, stop_reason)
    /\ result' = AssistantResponse(text_content, tool_uses, stop_reason')
    /\ pc' = "done"
    /\ UNCHANGED <<buffer, text_content, tool_uses, current_tool_use, emitted, frames,
                   sent, pending, failing, response, other, text_call,
                   keychain, auth, files>>

\* stream.next().await is Some(Err(e)) taken for the end of the stream: the loop
\* is left and the code after it returns the response
TransportError_Swallow ==
    /\ pc = "streaming"
    /\ stop_reason' = FinalStopReason(tool_uses, stop_reason)
    /\ result' = AssistantResponse(text_content, tool_uses, stop_reason')
    /\ pc' = "done"
    /\ UNCHANGED <<buffer, text_content, tool_uses, current_tool_use, emitted, frames,
                   sent, pending, failing, response, other, text_call,
                   keychain, auth, files>>

\* stream.next().await is Some(Err(e)): chunk_result.map_err(..)?
TransportError ==
    /\ pc = "streaming"
    /\ result' = ClaudeError("Network", <<>>)
    /\ pc' = "done"
    /\ UNCHANGED <<buffer, text_content, tool_uses, stop_reason, current_tool_use,
                   emitted, frames, sent, pending, failing,
                   response, other, text_call,
                   keychain, auth, files>>

Next == ReceiveEvent \/ StreamEnd \/ TransportError

Spec == Init /\ [][Next]_vars

NextBytes == ReceiveBytes \/ StreamEnd \/ TransportError

SpecBytes == InitBytes /\ [][NextBytes]_vars

NextFrames == ReceiveFrame \/ StreamEnd \/ TransportError

SpecFrames == Init /\ [][NextFrames]_vars

NextSink == ReceiveNotified \/ StreamEnd \/ TransportError

SpecSink == InitSink /\ [][NextSink]_vars

NextStatus == ReceiveStatus \/ ReceiveNotified \/ StreamEnd \/ TransportError

SpecStatus == InitStatus /\ [][NextStatus]_vars

NextRoundTrip == ReceiveToolInput \/ ReceiveReserialized \/ StreamEnd \/ TransportError

SpecRoundTrip == Init /\ [][NextRoundTrip]_vars

NextBlocks == ReceiveBlock \/ StreamEnd \/ TransportError

SpecBlocks == Init /\ [][NextBlocks]_vars

NextLines == ReceiveLine \/ StreamEnd \/ TransportError

SpecLines == Init /\ [][NextLines]_vars

NextChunks == ReceiveBoth \/ StreamEnd \/ TextStreamEnd

SpecChunks == InitChunks /\ [][NextChunks]_vars

NextKeychain == GetApiKey \/ SetApiKey \/ DeleteApiKey

SpecKeychain == InitKeychain /\ [][NextKeychain]_vars

NextAuth == SignIn \/ LoadSession \/ SignOut \/ GetSession \/ Tick

SpecAuth == InitAuth /\ [][NextAuth]_vars

NextRefresh ==
    \E c \in 1..2 : CallerStart(c) \/ ServerAnswers(c) \/ CallerFinish(c)

SpecRefresh == InitRefresh /\ [][NextRefresh]_vars

NextWrite == WriteCreate(1) \/ WriteAll(1) \/ WriteRename(1)

SpecWrite == InitWrite /\ [][NextWrite]_vars

NextTwoWrites == \E c \in 1..2 : WriteCreate(c) \/ WriteAll(c) \/ WriteRename(c)

SpecTwoWrites == InitTwoWrites /\ [][NextTwoWrites]_vars

NextRename == RenameDocument

SpecRename == InitRename /\ [][NextRename]_vars

NextTwoCalls ==
    \/ ReceivePart \/ StreamEnd \/ TransportError \/ Abandon
    \/ OtherStart \/ OtherReceivePart \/ OtherStreamEnd

SpecTwoCalls == Init /\ [][NextTwoCalls]_vars

(***************************************************************************)
(* What the claims speak of.                                               *)
(***************************************************************************)
RECURSIVE Flatten(_)
Flatten(seqs) == IF seqs = <<>> THEN <<>> ELSE Head(seqs) \o Flatten(Tail(seqs))

\* the texts of the done=false chunk notifications, in order
ChunkNotifications(em) ==
    SelectSeq(em, LAMBDA n : n.event = "claude-stream-chunk" /\ ~n.done)

ChunkTexts(em) ==
    LET c == ChunkNotifications(em) IN Flatten([i \in 1..Len(c) |-> c[i].chunk])

\* the tool calls the Sink was told of, in order
ToolUseNotifications(em) ==
    LET n == SelectSeq(em, LAMBDA x : x.event = "claude-tool-use")
    IN  [i \in 1..Len(n) |-> ToolUseEvent(n[i].id, n[i].name, n[i].input)]

MessageStopNotifications(em) == SelectSeq(em, LAMBDA n : n.event = "claude-message-stop")

\* the call with the whole stream delivered as one chunk
OneChunk == ProcessChunk(InitialLocals, WireLines(sent))

IsMessageStop(e) == e.kind \in {"message_stop", "message_stop_reason"}

\* the server sent one message_stop, as its last event
EndsWithItsOnlyMessageStop ==
    /\ sent # <<>>
    /\ IsMessageStop(sent[Len(sent)])
    /\ \A i \in 1..(Len(sent) - 1) : ~IsMessageStop(sent[i])

\* the step in which the call receives the event e
Receives(e) == sent' = Append(sent, e)

\* the tool_start that the json_delta events at the end of the stream s belong to
\* (0: there is none)
OpenedAt(s) ==
    IF \E i \in 1..Len(s) :
          s[i].kind = "tool_start" /\ \A j \in (i + 1)..Len(s) : s[j].kind = "json_delta"
    THEN CHOOSE i \in 1..Len(s) :
          s[i].kind = "tool_start" /\ \A j \in (i + 1)..Len(s) : s[j].kind = "json_delta"
    ELSE 0

FragmentsSince(s, i) == Flatten([j \in 1..(Len(s) - i) |-> s[i + j].a])

(***************************************************************************)
(* C1: for every stream and every cut of it into chunks, the payloads      *)
(* handed to the decoder are those of the stream delivered as one chunk.   *)
(* Stated for the calls that consumed the whole stream and returned Ok.    *)
(***************************************************************************)
C1_ChunkingInvariance ==
    (pc = "done" /\ result.kind = "Ok") => frames = OneChunk.frames

(***************************************************************************)
(* C2: a chunk boundary inside a multi-byte code point of a text delta     *)
(* changes neither the text returned nor the text chunks sent to the Sink. *)
(***************************************************************************)
C2_SplitCodePointTolerated ==
    (pc = "done" /\ result.kind = "Ok") =>
        /\ result.text_content = OneChunk.text_content
        /\ ChunkNotifications(emitted) = ChunkNotifications(OneChunk.emitted)

(***************************************************************************)
(* C3: once a message_stop was processed (the Sink got its stream-end      *)
(* notification), an event that arrives changes neither the text, the tool *)
(* calls nor the stop reason, and nothing more is sent to the Sink.        *)
(* Stated for the events after which the call goes on (all but the error   *)
(* event, which C6 is about).                                              *)
(***************************************************************************)
C3_TerminalAfterMessageStop ==
    [][(MessageStopNotifications(emitted) # <<>> /\ sent' # sent /\ pc' = "streaming") =>
          /\ text_content' = text_content
          /\ tool_uses' = tool_uses
          /\ stop_reason' = stop_reason
          /\ emitted' = emitted]_vars

(***************************************************************************)
(* C4: the stop reason that a message_stop carried is the stop reason of   *)
(* the response, whatever it is and however many tool calls completed.     *)
(* Stated for the streams whose only message_stop is their last event.     *)
(***************************************************************************)
C4_ExplicitStopReasonWins ==
    (/\ pc = "done" /\ result.kind = "Ok"
     /\ EndsWithItsOnlyMessageStop
     /\ sent[Len(sent)].kind = "message_stop_reason") =>
        result.stop_reason = sent[Len(sent)].a

(***************************************************************************)
(* C5: the stop reason of the stream-end notification is the stop reason   *)
(* of the response returned.  Stated for the streams whose only            *)
(* message_stop is their last event.                                       *)
(***************************************************************************)
C5_StopNotificationMatchesResult ==
    (pc = "done" /\ result.kind = "Ok" /\ EndsWithItsOnlyMessageStop) =>
        \A i \in 1..Len(emitted) :
            emitted[i].event = "claude-message-stop" =>
                emitted[i].stop_reason = result.stop_reason

(***************************************************************************)
(* C6: once the stream held an error event, the call has returned an Api   *)
(* error that carries the server's error type and message, the last        *)
(* notification to the Sink is the error notification with the same text,  *)
(* and no response is returned.                                            *)
(***************************************************************************)
C6_ErrorEventAborts ==
    \A i \in 1..Len(sent) :
        sent[i].kind = "error" =>
            /\ pc = "done"
            /\ result = ClaudeError("Api", sent[i].a \o COLON_SPACE \o sent[i].b)
            /\ emitted # <<>>
            /\ emitted[Len(emitted)] = StreamError(sent[i].a \o COLON_SPACE \o sent[i].b)

\* an error event after text, after a message_stop and while a tool block is open
C6_Witness ==
    /\ result.kind = "Api"
    /\ text_content # <<>>
    /\ current_tool_use # <<>>
    /\ MessageStopNotifications(emitted) # <<>>

(***************************************************************************)
(* C7: a tool_start(id, name), then json_delta fragments, then a           *)
(* block_stop append exactly one tool call: id and name of the tool_start, *)
(* input the JSON value of the fragments concatenated in arrival order     *)
(* (an empty object when the concatenation is no JSON text).               *)
(***************************************************************************)
C7_ToolCallReassembly ==
    [][(Receives(Event("block_stop", <<>>, <<>>)) /\ OpenedAt(sent) # 0) =>
          LET start == sent[OpenedAt(sent)]
              text == FragmentsSince(sent, OpenedAt(sent))
              input == unwrap_or_Object(from_str_Value(text))
          IN  tool_uses' = Append(tool_uses, ToolUseEvent(start.a, start.b, input))]_vars

\* {id: "t1", name: "lookup", input: {"q": "cat"}} from the fragments {"q": and "cat"}
C7_Witness ==
    /\ Len(sent) = 4
    /\ sent[2].kind = "json_delta" /\ sent[3].kind = "json_delta"
    /\ tool_uses = <<ToolUseEvent(ID_t1, NAME_lookup,
                        JObject(<<[k |-> <<"q">>, v |-> JString(<<"c", "a", "t">>)]>>))>>

(***************************************************************************)
(* C8: a block_stop while a tool block is open whose buffer is no JSON     *)
(* text (the empty buffer too) appends the tool call of the block's id and *)
(* name with input {} and notifies it; the call goes on and no block is    *)
(* open afterwards.                                                        *)
(***************************************************************************)
C8_MalformedToolJsonRecovered ==
    [][(/\ Receives(Event("block_stop", <<>>, <<>>))
        /\ current_tool_use # <<>>
        /\ ~from_str_Value(current_tool_use[1].input_json).ok) =>
          LET tool == current_tool_use[1]
              record == ToolUseEvent(tool.id, tool.name, JObject(<<>>))
          IN  /\ tool_uses' = Append(tool_uses, record)
              /\ emitted' = Append(emitted, ToolUseNotification(record))
              /\ current_tool_use' = <<>>
              /\ pc' = "streaming" /\ result' = NoResult]_vars

\* the buffer {"q": never closes: the tool call has input {}
C8_Witness ==
    /\ pc = "streaming"
    /\ current_tool_use = <<>>
    /\ Len(sent) = 3
    /\ sent[2] = Event("json_delta", FRAGMENT_open, <<>>)
    /\ sent[3].kind = "block_stop"
    /\ tool_uses = <<ToolUseEvent(ID_t1, NAME_lookup, JObject(<<>>))>>

(***************************************************************************)
(* C9: a text delta, with or without an open tool block, appends its text  *)
(* to the cumulative text and sends one chunk notification with done=false *)
(* and the same text; at every point the cumulative text is the            *)
(* concatenation of the done=false chunk notifications sent so far.        *)
(***************************************************************************)
C9_TextDeltaAppendsAndNotifies ==
    /\ [](text_content = ChunkTexts(emitted))
    /\ [][\A e \in Events :
            (e.kind = "text_delta" /\ Receives(e)) =>
                /\ text_content' = text_content \o e.a
                /\ emitted' = Append(emitted, StreamChunk(e.a, FALSE))
                /\ UNCHANGED <<current_tool_use, tool_uses>>]_vars

\* two text deltas, the second while a tool block is open
C9_Witness ==
    /\ current_tool_use # <<>>
    /\ text_content = TEXT_Hi \o TEXT_e_acute
    /\ Len(ChunkNotifications(emitted)) = 2
    /\ sent[Len(sent)].kind = "text_delta"

(***************************************************************************)
(* C10: at every point the list of tool calls is the sequence of the       *)
(* tool-call notifications sent so far (same id, name, input and order),   *)
(* and so is the list of the response returned.                            *)
(***************************************************************************)
C10_ToolCallsMatchNotifications ==
    /\ tool_uses = ToolUseNotifications(emitted)
    /\ result.kind = "Ok" => result.tool_uses = ToolUseNotifications(emitted)

\* a response with two tool calls
C10_Witness ==
    /\ result.kind = "Ok"
    /\ Len(result.tool_uses) = 2
    /\ result.tool_uses[1].id # result.tool_uses[2].id

(***************************************************************************)
(* C11: when the stream ends (stream.next() is None) and no message_stop   *)
(* was in it, the call returns the response of the text and the tool calls *)
(* accumulated so far, with stop reason "end_turn" when no tool call       *)
(* completed and "tool_use" when one did.                                  *)
(***************************************************************************)
C11_ExhaustionIsCompletion ==
    [][(/\ pc = "streaming" /\ pc' = "done"
        /\ sent' = sent /\ result'.kind # "Network"
        /\ \A i \in 1..Len(sent) : ~IsMessageStop(sent[i])) =>
          result' = AssistantResponse(text_content, tool_uses,
                        IF tool_uses = <<>> THEN END_TURN ELSE T_tool_use)]_vars

\* a stream of a text delta and a tool call that ends without message_stop
C11_Witness ==
    /\ result.kind = "Ok"
    /\ \A i \in 1..Len(sent) : ~IsMessageStop(sent[i])
    /\ result.text_content # <<>>
    /\ Len(result.tool_uses) = 1
    /\ result.stop_reason = T_tool_use

(***************************************************************************)
(* C12: a call whose stream holds no error event and whose transport does  *)
(* not fail returns a response, never an error: payloads that do not       *)
(* decode, unknown kinds, a json_delta or a block_stop without an open     *)
(* block and a repeated tool_start do not end the call.                    *)
(***************************************************************************)
C12_OnlyFailuresAbort ==
    /\ pc = "streaming" => result = NoResult
    /\ (pc = "done" /\ result.kind # "Network") => result.kind = "Ok"

\* a response after a json_delta and a block_stop without an open block and a
\* payload without effect
C12_Witness ==
    /\ result.kind = "Ok"
    /\ Len(sent) = 4
    /\ {sent[1].kind, sent[2].kind} = {"json_delta", "block_stop"}
    /\ \E i \in 1..Len(sent) : sent[i] \in Anomalies

(***************************************************************************)
(* C13: a payload that does not decode, of a kind the code does not know   *)
(* or of kind message_delta changes neither the text, the open block, the  *)
(* tool calls nor the stop reason and sends nothing to the Sink; the line  *)
(* buffer is as before too, so the frames after it are processed from the  *)
(* same locals as without it.                                              *)
(***************************************************************************)
C13_AnomalousFrameAbsorbed ==
    [][\A e \in Anomalies :
          Receives(e) =>
              /\ UNCHANGED <<buffer, text_content, current_tool_use, tool_uses,
                             stop_reason, emitted>>
              /\ pc' = "streaming" /\ result' = NoResult]_vars

\* a payload without effect between the fragment of a tool block and its block_stop
C13_Witness ==
    /\ Len(sent) = 4
    /\ sent[1].kind = "tool_start" /\ sent[2].kind = "json_delta"
    /\ sent[3] = Event("raw", PAYLOAD_message_delta_usage, <<>>)
    /\ sent[4].kind = "block_stop"
    /\ Len(tool_uses) = 1
    /\ frames[3] = PAYLOAD_message_delta_usage

(***************************************************************************)
(* C14: whichever calls of app.emit fail, the step that receives an event  *)
(* is the step of the call whose notifications are all delivered: the same *)
(* frames are processed, the locals are the same, the call ends with the   *)
(* same error or goes on, and so the value returned is the same.           *)
(***************************************************************************)
C14_SinkFailuresIgnored ==
    [][\A e \in SinkEvents :
          Receives(e) =>
              \E ok \in {ProcessChunk([Locals EXCEPT !.failing = {}], WireLine(e))} :
                  /\ frames' = ok.frames
                  /\ buffer' = ok.buffer
                  /\ text_content' = ok.text_content
                  /\ current_tool_use' = ok.current_tool_use
                  /\ tool_uses' = ok.tool_uses
                  /\ stop_reason' = ok.stop_reason
                  /\ emitted' = ok.emitted
                  /\ IF ok.ret # <<>>
                     THEN pc' = "done" /\ result' = ClaudeError("Api", ok.ret[1])
                     ELSE pc' = "streaming" /\ result' = NoResult]_vars

\* a response with a tool call whose first two notifications were not delivered
C14_Witness ==
    /\ failing = {1, 2}
    /\ result.kind = "Ok"
    /\ Len(emitted) > 2
    /\ result.tool_uses # <<>>
    /\ result.text_content # <<>>

(***************************************************************************)
(* C15: the step in which the transport fails returns the Network error:   *)
(* nothing is sent to the Sink in it, what was sent stays, the locals stay *)
(* as they were and no response is returned; and a call that has returned  *)
(* takes no further step (no chunk is awaited again, nothing is retried).  *)
(***************************************************************************)
C15_TransportFailureAborts ==
    /\ [][TransportError =>
            /\ pc' = "done" /\ result' = ClaudeError("Network", <<>>)
            /\ UNCHANGED <<emitted, buffer, text_content, current_tool_use, tool_uses,
                           stop_reason, frames, sent>>]_vars
    /\ [][pc = "streaming"]_vars

\* the transport fails after a text delta was notified and while a tool block is open
C15_Witness ==
    /\ result.kind = "Network"
    /\ ChunkNotifications(emitted) # <<>>
    /\ current_tool_use # <<>>
    /\ Len(sent) < MaxFrames

(***************************************************************************)
(* C16: for a status that is no success the call has returned an error     *)
(* once the status was read, no byte of a stream was processed and nothing *)
(* was sent to the Sink; 401 gives Api("Invalid API key") whatever the     *)
(* body says, 429 gives RateLimited with the message of the server, every  *)
(* other status gives Api.                                                 *)
(***************************************************************************)
C16_StatusErrorBeforeStream ==
    (~is_success(response.status) /\ pc # "requesting") =>
        /\ pc = "done"
        /\ sent = <<>> /\ frames = <<>> /\ buffer = <<>> /\ emitted = <<>>
        /\ response.status = 401 => result = ClaudeError("Api", INVALID_API_KEY)
        /\ response.status = 429 => result = ClaudeError("RateLimited", response.message)
        /\ response.status \notin {401, 429} => result.kind = "Api"

\* 429 with the message in the error object of a JSON body
C16_Witness ==
    /\ pc = "done"
    /\ response.status = 429 /\ response.format = "json"
    /\ response.message = MESSAGE_quoted
    /\ result.kind = "RateLimited"

(***************************************************************************)
(* C17: a call that returns a response for a stream of n >= 1 text deltas  *)
(* and no tool block has sent the n chunk notifications with done=false in *)
(* the order of the stream, and after them exactly one stream-end          *)
(* notification.  Stated for the streams of text deltas with or without    *)
(* message_stop events.                                                    *)
(***************************************************************************)
C17_TextStreamNotifications ==
    (/\ pc = "done" /\ result.kind = "Ok"
     /\ \E i \in 1..Len(sent) : sent[i].kind = "text_delta"
     /\ \A i \in 1..Len(sent) : sent[i].kind = "text_delta" \/ IsMessageStop(sent[i])) =>
        LET texts == SelectSeq(sent, LAMBDA e : e.kind = "text_delta")
        IN  /\ ChunkNotifications(emitted) =
                   [i \in 1..Len(texts) |-> StreamChunk(texts[i].a, FALSE)]
            /\ Len(MessageStopNotifications(emitted)) = 1
            /\ emitted[Len(emitted)].event = "claude-message-stop"

\* the response of a call that receives the events s and runs alone
AloneResponse(s) ==
    LET st == ProcessChunk(InitialLocals, WireLines(s))
    IN  AssistantResponse(st.text_content, st.tool_uses,
                          FinalStopReason(st.tool_uses, st.stop_reason))

(***************************************************************************)
(* C18: of two calls that run at the same time, a step of one leaves the   *)
(* buffer, the open block, the text, the tool calls, the stop reason and   *)
(* the return value of the other as they were, and the response each       *)
(* returns is the response of a call that receives its events alone; this  *)
(* holds too for a call made after the other was abandoned in the middle   *)
(* of a line and of a tool block.                                          *)
(***************************************************************************)
C18_PerCallIsolation ==
    /\ []((pc = "done" /\ result.kind = "Ok") => result = AloneResponse(sent))
    /\ []((other.pc = "done" /\ other.result.kind = "Ok") =>
              other.result = AloneResponse(other.sent))
    /\ [][other' # other =>
            UNCHANGED <<buffer, text_content, current_tool_use, tool_uses, stop_reason,
                        frames, pc, result, sent, pending>>]_vars
    /\ [][<<sent, pending, pc>>' # <<sent, pending, pc>> => other' = other]_vars

\* the first call was abandoned with half a line in its buffer and a tool block
\* open; the second call, made at any time, has returned its own text
C18_Witness ==
    /\ pc = "abandoned"
    /\ buffer # <<>>
    /\ current_tool_use # <<>>
    /\ other.result.kind = "Ok"
    /\ other.result.text_content = TEXT_Hi
    /\ other.result.tool_uses = <<>>

(***************************************************************************)
(* C19: the input of an assembled tool call, serialized with to_string and *)
(* received as the one fragment of a fresh tool block, gives one more tool *)
(* call, whose input is the input that was serialized.                     *)
(***************************************************************************)
C19_ToolInputRoundTrip ==
    [][\A k \in 1..Len(tool_uses) :
          sent' = sent \o Reserialized(tool_uses[k]) =>
              /\ Len(tool_uses') = Len(tool_uses) + 1
              /\ SubSeq(tool_uses', 1, Len(tool_uses)) = tool_uses
              /\ tool_uses'[Len(tool_uses')].input = tool_uses[k].input
              /\ from_str_Value(to_string(tool_uses[k].input)).ok]_vars

\* the input with escapes, the input with a key given twice and the input {} of a
\* buffer that is no JSON have made the round trip
C19_Witness ==
    /\ Len(tool_uses) = 2
    /\ tool_uses[2].id = ID_t2
    /\ tool_uses[1].input = tool_uses[2].input
    /\ tool_uses[1].input.t = "object"
    /\ \E i \in 1..Len(tool_uses[1].input.m) :
          tool_uses[1].input.m[i].v.t = "string"
          /\ "\n" \in {tool_uses[1].input.m[i].v.s[j] :
                            j \in 1..Len(tool_uses[1].input.m[i].v.s)}

\* the last tool_start of the stream s when no block_stop came after it (0: none)
LastStart(s) ==
    IF \E i \in 1..Len(s) :
          s[i].kind = "tool_start"
          /\ \A j \in (i + 1)..Len(s) : s[j].kind \notin {"tool_start", "block_stop"}
    THEN CHOOSE i \in 1..Len(s) :
          s[i].kind = "tool_start"
          /\ \A j \in (i + 1)..Len(s) : s[j].kind \notin {"tool_start", "block_stop"}
    ELSE 0

\* the tool_start at i came while the block of an earlier tool_start was open
Replaces(s, i) ==
    \E j \in 1..(i - 1) :
        s[j].kind = "tool_start" /\ \A k \in (j + 1)..(i - 1) : s[k].kind # "block_stop"

\* the fragments of the json_delta events of s after position i, concatenated
JsonFragmentsAfter(s, i) ==
    Flatten([j \in 1..(Len(s) - i) |->
                IF s[i + j].kind = "json_delta" THEN s[i + j].a ELSE <<>>])

(***************************************************************************)
(* C20: a tool_start that arrives while a tool block is open does not end  *)
(* the call: the open block becomes the one of its id and name with an     *)
(* empty buffer, and no tool call is recorded or notified for the block it *)
(* replaces; the block_stop that follows records and notifies the tool     *)
(* call of the second tool_start, with the fragments that came after it.   *)
(***************************************************************************)
C20_SecondBlockStartReplaces ==
    /\ [][\A e \in Events :
            (e.kind = "tool_start" /\ Receives(e) /\ current_tool_use # <<>>) =>
                /\ current_tool_use' = <<ToolUseState(e.a, e.b, <<>>)>>
                /\ pc' = "streaming" /\ result' = NoResult
                /\ UNCHANGED <<tool_uses, emitted>>]_vars
    /\ [][(/\ Receives(Event("block_stop", <<>>, <<>>))
           /\ LastStart(sent) # 0
           /\ Replaces(sent, LastStart(sent))) =>
            LET start == sent[LastStart(sent)]
                input == unwrap_or_Object(
                             from_str_Value(JsonFragmentsAfter(sent, LastStart(sent))))
                record == ToolUseEvent(start.a, start.b, input)
            IN  /\ tool_uses' = Append(tool_uses, record)
                /\ emitted' = Append(emitted, ToolUseNotification(record))]_vars

\* t1 with the fragment {"q": is replaced by t2: the one tool call is t2 with input {}
C20_Witness ==
    /\ sent = << Event("tool_start", ID_t1, NAME_lookup),
                 Event("json_delta", FRAGMENT_open, <<>>),
                 Event("tool_start", ID_t2, NAME_search),
                 Event("block_stop", <<>>, <<>>) >>
    /\ tool_uses = <<ToolUseEvent(ID_t2, NAME_search, JObject(<<>>))>>
    /\ ToolUseNotifications(emitted) = tool_uses

\* the block_stop events of s that came while a tool block was open
ClosingStops(s) ==
    {i \in 1..Len(s) : s[i].kind = "block_stop" /\ LastStart(SubSeq(s, 1, i - 1)) # 0}

(***************************************************************************)
(* C21: the start of a block that is no tool block changes nothing: the    *)
(* tool block that is open stays open with its id, name and buffer, the    *)
(* tool calls, the text and the stop reason stay as they are, nothing is   *)
(* emitted and the call goes on.                                           *)
(***************************************************************************)
C21_NonToolBlockStartIgnored ==
    [][Receives(Event("text_start", <<>>, <<>>)) =>
          UNCHANGED <<buffer, text_content, tool_uses, stop_reason, current_tool_use,
                      emitted, pc, result>>]_vars

\* the start of a text block came while t1 was open with {"q": in its buffer
C21_Witness ==
    /\ sent = << Event("tool_start", ID_t1, NAME_lookup),
                 Event("json_delta", FRAGMENT_open, <<>>),
                 Event("text_start", <<>>, <<>>) >>
    /\ current_tool_use = <<ToolUseState(ID_t1, NAME_lookup, FRAGMENT_open)>>
    /\ pc = "streaming"

(***************************************************************************)
(* C22: a json_delta that comes while no tool block is open changes        *)
(* nothing (no block, no text, no tool call, no notification) and the call *)
(* goes on; the buffer of the open block holds the fragments that came     *)
(* after its start and no other, so a block opened later starts empty.     *)
(***************************************************************************)
C22_OrphanJsonDeltaDropped ==
    /\ [][\A e \in BlockEvents :
            (e.kind = "json_delta" /\ Receives(e) /\ current_tool_use = <<>>) =>
                UNCHANGED <<buffer, text_content, tool_uses, stop_reason,
                            current_tool_use, emitted, pc, result>>]_vars
    /\ [](current_tool_use # <<>> =>
              /\ LastStart(sent) # 0
              /\ current_tool_use[1].input_json =
                     JsonFragmentsAfter(sent, LastStart(sent)))

\* a fragment came before t1 was opened and one after: t1 holds the second
C22_Witness ==
    /\ sent = << Event("json_delta", FRAGMENT_open, <<>>),
                 Event("tool_start", ID_t1, NAME_lookup),
                 Event("json_delta", FRAGMENT_close, <<>>) >>
    /\ current_tool_use = <<ToolUseState(ID_t1, NAME_lookup, FRAGMENT_close)>>
    /\ emitted = <<>>

(***************************************************************************)
(* C23: a block_stop that comes while no tool block is open changes        *)
(* nothing, and at every time the tool calls recorded, and those the Sink  *)
(* was told of, are as many as the block_stop events that came while a     *)
(* tool block was open.                                                    *)
(***************************************************************************)
C23_StopWithoutBlockIsNoOp ==
    /\ [][(Receives(Event("block_stop", <<>>, <<>>)) /\ current_tool_use = <<>>) =>
            UNCHANGED <<buffer, text_content, tool_uses, stop_reason, current_tool_use,
                        emitted, pc, result>>]_vars
    /\ [](/\ Len(tool_uses) = Cardinality(ClosingStops(sent))
          /\ Len(ToolUseNotifications(emitted)) = Cardinality(ClosingStops(sent)))

\* a block_stop of a text block, the block_stop of t1 and one more: one tool call
C23_Witness ==
    /\ sent = << Event("block_stop", <<>>, <<>>),
                 Event("tool_start", ID_t1, NAME_lookup),
                 Event("block_stop", <<>>, <<>>),
                 Event("block_stop", <<>>, <<>>) >>
    /\ Len(tool_uses) = 1
    /\ tool_uses[1].id = ID_t1

(***************************************************************************)
(* C24: a line that is no data line, and the data line of the sentinel     *)
(* [DONE], hands no payload to the decoder, changes no local and emits     *)
(* nothing, wherever it comes in the stream; the payloads the decoder got  *)
(* are those of the other lines, in their order.                           *)
(***************************************************************************)
C24_NonFrameLinesDiscarded ==
    /\ [][\A e \in NonFrameLines :
            Receives(e) =>
                UNCHANGED <<frames, buffer, text_content, tool_uses, stop_reason,
                            current_tool_use, emitted, pc, result>>]_vars
    /\ [](LET events == SelectSeq(sent, LAMBDA e : e \notin NonFrameLines)
          IN  frames = [i \in 1..Len(events) |-> WirePayload(events[i])])

\* an "event:" line and the sentinel came between the start of t1 and its
\* fragment: the decoder got the two payloads and t1 is open with the fragment
C24_Witness ==
    /\ Len(sent) = 4
    /\ sent[1] = Event("tool_start", ID_t1, NAME_lookup)
    /\ sent[2].kind = "line" /\ sent[2].a # <<>>
    /\ sent[3] = Event("raw", DONE_MARKER, <<>>)
    /\ sent[4] = Event("json_delta", FRAGMENT_open, <<>>)
    /\ Len(frames) = 2
    /\ current_tool_use = <<ToolUseState(ID_t1, NAME_lookup, FRAGMENT_open)>>

IsPrefix(a, b) == Len(a) <= Len(b) /\ a = SubSeq(b, 1, Len(a))

Front(s) == SubSeq(s, 1, Len(s) - 1)

\* the notifications the event at i of the stream s is the cause of
Caused(s, i) ==
    CASE s[i].kind = "text_delta" -> <<StreamChunk(s[i].a, FALSE)>>
      [] s[i].kind = "block_stop" /\ LastStart(SubSeq(s, 1, i - 1)) # 0 ->
           LET start == LastStart(SubSeq(s, 1, i - 1))
           IN  <<ToolUseNotification(ToolUseEvent(s[start].a, s[start].b, JObject(<<>>)))>>
      [] s[i].kind = "message_stop" ->
           <<StreamChunk(<<>>, TRUE), MessageStopEvent(END_TURN)>>
      [] s[i].kind = "error" -> <<StreamError(s[i].a \o COLON_SPACE \o s[i].b)>>
      [] OTHER -> <<>>

\* the notifications of the stream s in the order of its events, up to its
\* first error event
Expected(s) ==
    LET last == IF \E i \in 1..Len(s) : s[i].kind = "error"
                THEN CHOOSE i \in 1..Len(s) :
                        s[i].kind = "error" /\ \A j \in 1..(i - 1) : s[j].kind # "error"
                ELSE Len(s)
    IN  Flatten([i \in 1..last |-> Caused(s, i)])

(***************************************************************************)
(* C25: whatever the cuts of the stream into chunks, the notifications the *)
(* Sink has got are at every time a first part of the notifications of the *)
(* events of the stream taken in the order of the stream, and when the     *)
(* call has returned they are those of all the events up to the first      *)
(* error event (a line that is not ended is the cause of none).            *)
(***************************************************************************)
C25_NotificationsInArrivalOrder ==
    /\ [](IsPrefix(emitted, Expected(sent)))
    /\ [](pc = "done" => emitted = Expected(sent))

\* the last chunk held the end of the line of a text delta and the start of
\* the line of a message_stop: the Sink has the chunk notification, the rest
\* of the second line is still to come
C25_Witness ==
    /\ pc = "streaming"
    /\ sent = <<Event("text_delta", TEXT_Hi, <<>>), Event("message_stop", <<>>, <<>>)>>
    /\ buffer # <<>> /\ pending # <<>>
    /\ buffer \o pending = WireLine(sent[2])
    /\ emitted = <<StreamChunk(TEXT_Hi, FALSE)>>

(***************************************************************************)
(* C26: when the stream ends while a tool block is open the call returns   *)
(* Ok; the response holds the tool calls recorded before and none for the  *)
(* open block, nothing is emitted for it, and the stop reason is           *)
(* "tool_use" only if a tool call was recorded before.                     *)
(***************************************************************************)
C26_OpenBlockDiscardedAtEnd ==
    /\ [][(StreamEnd /\ current_tool_use # <<>>) =>
            /\ result'.kind = "Ok"
            /\ result'.tool_uses = tool_uses
            /\ Len(result'.tool_uses) = Cardinality(ClosingStops(sent))
            /\ emitted' = emitted
            /\ result'.stop_reason = IF tool_uses = <<>> THEN END_TURN ELSE T_tool_use]_vars
    /\ [](result.kind = "Ok" => Len(result.tool_uses) = Cardinality(ClosingStops(sent)))

\* the stream ended with t1 open and a fragment in its buffer
C26_Witness ==
    /\ pc = "done" /\ result.kind = "Ok"
    /\ sent = << Event("text_delta", TEXT_Hi, <<>>),
                 Event("tool_start", ID_t1, NAME_lookup),
                 Event("json_delta", FRAGMENT_open, <<>>) >>
    /\ current_tool_use # <<>>
    /\ result.tool_uses = <<>> /\ result.stop_reason = END_TURN
    /\ result.text_content = TEXT_Hi

(***************************************************************************)
(* C27: a last line that the stream does not end with a newline is never   *)
(* processed: the response and the notifications of a call whose stream    *)
(* ended inside its last line are those of the stream without that line.   *)
(***************************************************************************)
C27_UnterminatedLastLineIgnored ==
    (pc = "done" /\ result.kind = "Ok" /\ sent # <<>> /\ sent[Len(sent)] \in PartialLines) =>
        /\ result = AloneResponse(Front(sent))
        /\ emitted = ProcessChunk(InitialLocals, WireLines(Front(sent))).emitted
        /\ frames = ProcessChunk(InitialLocals, WireLines(Front(sent))).frames

\* the stream was a text delta and a message_stop without its newline: the call
\* returned the text and the Sink got no notification of the end
C27_Witness ==
    /\ pc = "done" /\ result.kind = "Ok"
    /\ sent = <<Event("text_delta", TEXT_Hi, <<>>),
                Event("partial",
                      DATA_PREFIX \o WirePayload(Event("message_stop", <<>>, <<>>)), <<>>)>>
    /\ buffer = sent[2].a
    /\ result.text_content = TEXT_Hi
    /\ emitted = <<StreamChunk(TEXT_Hi, FALSE)>>

(***************************************************************************)
(* C28: send_message and send_message_with_tools, reading the same stream  *)
(* in the same chunks, have at every time the same text and have sent the  *)
(* same chunk notifications with done=false; one returns an error exactly  *)
(* when the other does, with the same message, and when both return Ok the *)
(* String of send_message is the text_content of the response.             *)
(***************************************************************************)
C28_TextOnlyAgreesWithTools ==
    /\ text_call.full_response = text_content
    /\ ChunkNotifications(text_call.emitted) = ChunkNotifications(emitted)
    /\ (text_call.result.kind = "Api") = (result.kind = "Api")
    /\ text_call.result.kind = "Api" => text_call.result.error = result.error
    /\ (text_call.result.kind = "Ok" /\ result.kind = "Ok") =>
           text_call.result.text_content = result.text_content

\* both commands returned the text of a stream of a text delta and a
\* message_stop; send_message_with_tools sent one notification more
C28_Witness ==
    /\ text_call.result.kind = "Ok" /\ result.kind = "Ok"
    /\ text_call.result.text_content = TEXT_Hi
    /\ text_call.emitted = <<StreamChunk(TEXT_Hi, FALSE), StreamChunk(<<>>, TRUE)>>
    /\ Len(emitted) = 3

(***************************************************************************)
(* C29: a get_api_key that follows a set_api_key(k), with no other command *)
(* of the keychain between them, returns Some(k), whatever the keychain of *)
(* the system does in the two calls.                                       *)
(***************************************************************************)
C29_SetThenGetReturnsKey ==
    (keychain.last.op = "get" /\ keychain.prev.op = "set") =>
        keychain.last.ret = keychain.prev.key

(***************************************************************************)
(* C30: a get_api_key that follows a delete_api_key, with no other command *)
(* of the keychain between them, returns None, whatever the keychain of    *)
(* the system does in the two calls.                                       *)
(***************************************************************************)
C30_DeleteThenGetReturnsNone ==
    (keychain.last.op = "get" /\ keychain.prev.op = "delete") =>
        keychain.last.ret = <<>>

\* the session a store holds, if what it holds is the JSON of one
Parsed(store) == IF store = <<>> THEN <<>> ELSE from_str_AuthSession(store[1])

(***************************************************************************)
(* C31: load_session tries the stores in the order keychain, file, memory. *)
(* It returns the session of the keychain when the keychain gives one that *)
(* parses; it returns the session of the file only when the keychain has   *)
(* no entry, fails or holds data that does not parse; it returns the       *)
(* session of the memory only when the file gives nothing; and it returns  *)
(* None only when the three give nothing.                                  *)
(***************************************************************************)
C31_LoadSessionPriority ==
    auth.last.op = "load_session" =>
        LET in_keychain == IF auth.last.ko = "Ok" THEN Parsed(auth.password) ELSE <<>>
            in_file == IF auth.data_dir /\ auth.last.fo = "Ok" THEN Parsed(auth.file) ELSE <<>>
            in_memory == Parsed(auth.memory)
        IN  /\ in_keychain # <<>> => auth.last.ret = in_keychain
            /\ (in_keychain = <<>> /\ in_file # <<>>) => auth.last.ret = in_file
            /\ (in_keychain = <<>> /\ in_file = <<>>) => auth.last.ret = in_memory
            /\ auth.last.ret = <<>> <=>
                  (in_keychain = <<>> /\ in_file = <<>> /\ in_memory = <<>>)

\* the keychain holds a session and fails, and load_session returns the other
\* session that the file holds
C31_Witness ==
    /\ auth.last.op = "load_session"
    /\ auth.last.ko = "Err"
    /\ Parsed(auth.password) # <<>>
    /\ Parsed(auth.file) # <<>>
    /\ Parsed(auth.file) # Parsed(auth.password)
    /\ auth.last.ret = Parsed(auth.file)

(***************************************************************************)
(* C32: after a save_session(s) that returned Ok, the next load_session,   *)
(* with no save and no clear between the two, returns s, whatever the      *)
(* keychain does in the two calls.                                         *)
(***************************************************************************)
C32_SavedSessionIsLoaded ==
    (auth.last.op = "load_session" /\ auth.saved # <<>>) => auth.last.ret = auth.saved

\* no store holds the JSON of a session
NoSessionStored ==
    Parsed(auth.password) = <<>> /\ Parsed(auth.file) = <<>> /\ Parsed(auth.memory) = <<>>

(***************************************************************************)
(* C33: a sign_out that is called while a session is stored sends the      *)
(* logout request with the access token of that session, and it clears the *)
(* session of the stores.                                                  *)
(***************************************************************************)
C33_SignOutSendsLogout ==
    (auth.last.op = "sign_out" /\ auth.last.before # <<>>) =>
        /\ auth.last.requests = <<Request("logout", auth.last.before[1].access_token)>>
        /\ Stored(auth) = <<>>

(***************************************************************************)
(* C34: from the return of sign_out to the next sign-in that succeeds,     *)
(* load_session and get_session return None, whatever the keychain and the *)
(* file system did while sign_out cleared the stores.                      *)
(***************************************************************************)
C34_NoSessionAfterSignOut ==
    (auth.signed_out /\ auth.last.op \in {"load_session", "get_session"}) =>
        auth.last.ret = <<>>

RefreshedBy(c) ==
    /\ \A d \in 1..2 : auth.callers[d].pc = "done" /\ auth.callers[d].token # <<>>
    /\ auth.callers[1].token = auth.callers[2].token
    /\ auth.callers[c].answer.kind = "Ok"
    /\ auth.callers[3 - c].answer.kind = "Status"

(***************************************************************************)
(* C36: when two commands refresh the same expired session at the same     *)
(* time and the server accepts its refresh token once, the session stored  *)
(* after both have returned is the one the successful refresh has          *)
(* returned, in every interleaving.                                        *)
(***************************************************************************)
C36_WinnerSessionKept ==
    \A c \in 1..2 : RefreshedBy(c) => Stored(auth) = auth.callers[c].answer.session

(***************************************************************************)
(* C37: at every moment of one call of write_document, and after a failure *)
(* of any of its steps, a reader of the path sees the whole content the    *)
(* file had before the call or the whole new content, never a part of a    *)
(* content and never an empty file; when the call returns Err the file has *)
(* the content it had before.                                              *)
(***************************************************************************)
C37_WriteDocumentAtomic ==
    LET call == files.calls[1]
        seen == read_to_string(files, call.path)
    IN  /\ seen \in {files.before, <<call.content>>}
        /\ (call.pc = "done" /\ ~call.ok) => seen = files.before

\* the write of the temp file has failed after a part of the content, the call has
\* returned Err and the document has the content it had
C37_Witness ==
    /\ files.calls[1].pc = "done"
    /\ ~files.calls[1].ok
    /\ read_to_string(files, temp_path(files.calls[1].path))
          = <<SubSeq(files.calls[1].content, 1, 1)>>
    /\ read_to_string(files, files.calls[1].path) = <<DocOld>>

(***************************************************************************)
(* C38: two calls of write_document on the same path with the contents A   *)
(* and B that run at the same time both return Ok, and the file holds A or *)
(* B once both have returned, in every interleaving of their steps.        *)
(***************************************************************************)
C38_TwoWritesBothOk ==
    (\A c \in 1..2 : files.calls[c].pc = "done") =>
        /\ \A c \in 1..2 : files.calls[c].ok
        /\ read_to_string(files, PATH_a_md) \in {<<DocA>>, <<DocB>>}

(***************************************************************************)
(* C39: when a file other than the source exists at new_path, a call of    *)
(* rename_document returns InvalidPath and leaves the directory as it was: *)
(* the source, its sidecar and the file at new_path.                       *)
(***************************************************************************)
C39_RenameNeverOverwrites ==
    files.last.op = "rename_document" =>
        LET before == [files EXCEPT !.entries = files.last.entries]
        IN  (/\ exists(before, files.last.new_path)
             /\ Lookup(before, files.last.new_path) # Lookup(before, files.last.old_path)) =>
                /\ files.last.ret = "InvalidPath"
                /\ files.entries = files.last.entries

====
